---- MODULE Spec2Model ----
(***************************************************************************)
(* Session orchestration and human-escalation protocol of the Battery      *)
(* Smart socket server: the session store, the escalation store, the       *)
(* broadcaster, the message dispatcher and its handlers, and the mock      *)
(* response timers.                                                        *)
(*                                                                         *)
(* The server runs on one event loop: every handler, every timer callback  *)
(* and every connection event runs to completion, so each is one action.   *)
(* An async handler whose awaited call rejects at once resumes in a        *)
(* microtask, before the next message or timer, and is one action too.     *)
(*                                                                         *)
(* The voicebot page of the web client and its VoiceSocketService are      *)
(* modelled beside it: the page's call state, the WebRTC resources of the  *)
(* service, its timers and its pending awaits.  Each callback, and each    *)
(* stretch of an async function between two awaits, is one action.         *)
(***************************************************************************)
EXTENDS Integers, Sequences, FiniteSets, TLC

(***************************************************************************)
(* Bounds of the model.                                                    *)
(***************************************************************************)
MaxTurns == 2
MaxTranscript == 3
MaxChunks == 3
MaxStreams == 1
MaxClock == 1
StreamWords == 1
MaxHistory == 4
MaxPending == 2
MaxCleanups == 2

(***************************************************************************)
(* Values.  An optional number is <<>> (null) or <<n>>; a confidence is    *)
(* held in hundredths (0.70 is 70).  An absent field of a message is a     *)
(* field that is not in the message's DOMAIN (JavaScript undefined).       *)
(***************************************************************************)
Null == "null"
None == <<>>
Some(x) == <<x>>
Has(m, f) == f \in DOMAIN m

Conns == {"c1", "c2"}
SessionIds == {"s1", "s2"}
Uuids == {"uuid"}
AllIds == SessionIds \cup Uuids

\* ws.readyState: 0 before the connection event, 1 while open, 3 once closed.
WS_NEW == 0
WS_OPEN == 1
WS_CLOSED == 3
\* 2 while the closing handshake runs: the socket is still in wss.clients.
WS_CLOSING == 2

\* The message texts of the model and the keywords each contains.
Texts == {"hi", "nearest station", "my invoice"}
SessionTypes == {"voice", "chat"}

VARIABLES
    readyState,         \* ws.readyState of each connection
    wssClients,         \* wss.clients, in insertion order
    clientSessionId,    \* the closure variable of each connection
    activeSessions,     \* sessionStore.activeSessions, in Map insertion order
    sessionClients,     \* sessionStore.sessionClients
    escalatedCalls,     \* escalationStore.escalatedCalls, in Map insertion order
    streams,            \* the live mock-response timers
    sessionTranscripts, \* mockResponse.sessionTranscripts
    clock,              \* the wall clock read by new Date()
    received,           \* the inbound message the last step handled
    sent,               \* the send() calls of the last step, in call order
    audioLocals,        \* locals of the last handleAudioEnd / forwardAudioToPython
    observed,           \* per connection and session id: how the observer learnt of it
    adminPage,          \* the agent console page: its connection and its two lists
    page,               \* voicebot page: botState, isConnected, isEscalated, connectionError
    voiceSocket,        \* the VoiceSocketService singleton
    timeouts,           \* the client's setTimeout callbacks not yet run
    awaits,             \* the client's async functions waiting on a promise
    handled,            \* what the client's event loop ran last
    cleanupRuns         \* calls of the page's cleanup() since the call started

serverVars == <<readyState, wssClients, clientSessionId, activeSessions, sessionClients,
                escalatedCalls, streams, sessionTranscripts, clock, received, sent,
                audioLocals, observed, adminPage>>

clientVars == <<page, voiceSocket, timeouts, awaits, handled, cleanupRuns>>

vars == <<serverVars, clientVars>>

\* What the event loop ran last: a message of a connection, a connection or
\* close event, or the timer of a slot.
Message(c, message) == [event |-> "message", conn |-> c, message |-> message, slot |-> 0]
Event(e, c) == [event |-> e, conn |-> c, message |-> [type |-> Null], slot |-> 0]
Timer(k) == [event |-> "timer", conn |-> Null, message |-> [type |-> Null], slot |-> k]

(***************************************************************************)
(* Sequence helpers.                                                       *)
(***************************************************************************)
Range(s) == {s[i] : i \in 1..Len(s)}

RECURSIVE SumSeq(_)
SumSeq(s) == IF s = <<>> THEN 0 ELSE Head(s) + SumSeq(Tail(s))

\* Array.prototype.find: the first of the matching positions, or 0 (undefined).
FindIndex(hits) ==
    IF hits = {} THEN 0 ELSE CHOOSE i \in hits : \A j \in hits : i <= j

(***************************************************************************)
(* utils/broadcaster.js                                                    *)
(***************************************************************************)
\* sendToClient that does not look at the readyState.
sendToClient_Always(rs, ws, data) ==
    IF ws # Null THEN <<[to |-> ws, data |-> data]>> ELSE <<>>

\* sendToClient(ws, data): one send() if the socket is open, else nothing.
sendToClient(rs, ws, data) ==
    IF ws # Null /\ rs[ws] = WS_OPEN THEN <<[to |-> ws, data |-> data]>> ELSE <<>>

\* broadcast(data): one send() per open client, in wss.clients order.
RECURSIVE broadcastFrom(_, _, _, _)
broadcastFrom(rs, clients, data, i) ==
    IF i > Len(clients) THEN <<>>
    ELSE sendToClient(rs, clients[i], data) \o broadcastFrom(rs, clients, data, i + 1)

broadcast(rs, clients, data) == broadcastFrom(rs, clients, data, 1)

\* What an observer holds about the sessions after it was sent one event:
\* SYNC replaces its list ("synced"), SESSION_STARTED adds the session
\* ("started") and SESSION_ENDED removes it ("none").
Unobserved == [id \in AllIds |-> "none"]

ObserveOne(obs, msg) ==
    LET c == msg.to
        d == msg.data
    IN  IF d.type = "SYNC"
        THEN [obs EXCEPT ![c] =
                 [id \in AllIds |->
                     IF \E i \in 1..Len(d.sessions) : d.sessions[i].id = id
                     THEN "synced" ELSE "none"]]
        ELSE IF d.type = "SESSION_STARTED" THEN [obs EXCEPT ![c][d.session.id] = "started"]
        ELSE IF d.type = "SESSION_ENDED" THEN [obs EXCEPT ![c][d.id] = "none"]
        ELSE obs

\* The same after a sequence of send() calls, in call order.
RECURSIVE ObserveAll(_, _)
ObserveAll(obs, msgs) ==
    IF msgs = <<>> THEN obs ELSE ObserveAll(ObserveOne(obs, Head(msgs)), Tail(msgs))

(***************************************************************************)
(* my-app admin/page.jsx and admin/services/adminSocket.js: the agent      *)
(* console.  It holds the sessions and escalations state of AdminPage and  *)
(* the connection of its adminSocket; no console is open when ws is Null.  *)
(***************************************************************************)
NoAdminPage == [ws |-> Null]

\* The page as mounted, with the socket of adminSocket.connect().
AdminPage(ws) == [ws |-> ws, sessions |-> <<>>, escalations |-> <<>>]

\* adminSocket's ws.onmessage with the callbacks AdminPage's effect sets.
adminOnMessage(pg, data) ==
    IF data.type = "ESCALATION_NEW"
    THEN [pg EXCEPT !.escalations = Append(@, data.escalation)]
    ELSE IF data.type = "ESCALATION_RESOLVED"
    THEN [pg EXCEPT !.escalations = SelectSeq(@, LAMBDA e : e.id # data.escalationId)]
    ELSE IF data.type = "ESCALATION_UPDATED"
    THEN [pg EXCEPT !.escalations =
             [i \in 1..Len(@) |-> IF @[i].id = data.escalation.id THEN data.escalation
                                  ELSE @[i]]]
    ELSE IF data.type = "SYNC"
    THEN [pg EXCEPT !.sessions = data.sessions, !.escalations = data.escalations]
    ELSE IF data.type = "SESSION_STARTED"
    THEN [pg EXCEPT !.sessions = Append(@, data.session)]
    ELSE IF data.type = "SESSION_ENDED"
    THEN [pg EXCEPT !.sessions = SelectSeq(@, LAMBDA x : x.id # data.id)]
    ELSE pg

\* The page after the events sent to its socket, in arrival order.
RECURSIVE adminOnMessages(_, _)
adminOnMessages(pg, msgs) ==
    IF msgs = <<>> THEN pg
    ELSE adminOnMessages(IF Head(msgs).to = pg.ws THEN adminOnMessage(pg, Head(msgs).data)
                         ELSE pg,
                         Tail(msgs))

\* The send() calls of the step reach their sockets in call order; a socket
\* that is not open holds nothing.
Observe ==
    /\ observed' = [c \in Conns |->
                       IF readyState'[c] = WS_OPEN THEN ObserveAll(observed, sent')[c]
                       ELSE Unobserved]
    /\ adminPage' = IF adminPage.ws = Null THEN adminPage
                    ELSE adminOnMessages(adminPage, sent')

(***************************************************************************)
(* store/sessionStore.js                                                   *)
(***************************************************************************)
SessionIndex(S, id) == FindIndex({i \in 1..Len(S) : S[i].id = id})

hasSession(S, id) == SessionIndex(S, id) # 0

getSession(S, id) == S[SessionIndex(S, id)]

\* Map.set: a new key goes to the end, an existing key keeps its place and
\* gets the new value.
MapSet(S, id, session) ==
    IF hasSession(S, id) THEN [S EXCEPT ![SessionIndex(S, id)] = session]
    ELSE Append(S, session)

\* createSession(id, sessionType, ws): activeSessions after the call.
createSession(S, id, sessionType, now) ==
    MapSet(S, id, [id |-> id, type |-> sessionType, startTime |-> now,
                   audioChunks |-> <<>>, chatHistory |-> <<>>])

\* deleteSession(id): activeSessions after the call.
deleteSession(S, id) == SelectSeq(S, LAMBDA s : s.id # id)

\* deleteSession(id) that leaves the connection mapping behind.
deleteSessionClient_Keep(SC, id) == SC

\* deleteSession(id): sessionClients after the call.
deleteSessionClient(SC, id) == [SC EXCEPT ![id] = Null]

\* createSession(id, sessionType, ws): sessionClients after the call.
setSessionClient(SC, id, ws) == [SC EXCEPT ![id] = ws]

\* getAllSessions()
getAllSessions(S) == S

\* getSessionClient(id)
getSessionClient(SC, id) == SC[id]

\* a || b for an optional number: 0, null and undefined are falsy.
OrNullNumber(m, f) ==
    IF Has(m, f) /\ m[f] # None /\ m[f] # Some(0) THEN m[f] ELSE None

\* a || b for a string: "", null and undefined are falsy.
OrString(m, f, default) ==
    IF Has(m, f) /\ m[f] # Null /\ m[f] # "" THEN m[f] ELSE default

\* The entry addChatMessage pushes for `message`.
StoredTurn(message, now) ==
    [sender |-> message.sender,
     text |-> message.text,
     timestamp |-> IF Has(message, "timestamp") /\ message.timestamp # None
                   THEN message.timestamp ELSE Some(now),
     confidence |-> OrNullNumber(message, "confidence"),
     tool |-> OrString(message, "tool", Null)]

\* addChatMessage with unshift in place of push: the new entry goes first.
addChatMessage_Unshift(S, sessionId, message, now) ==
    IF hasSession(S, sessionId)
    THEN [S EXCEPT ![SessionIndex(S, sessionId)].chatHistory =
              <<StoredTurn(message, now)>> \o @]
    ELSE S

\* addChatMessage(sessionId, message): activeSessions after the call.
addChatMessage(S, sessionId, message, now) ==
    IF hasSession(S, sessionId)
    THEN [S EXCEPT ![SessionIndex(S, sessionId)].chatHistory =
              Append(@, StoredTurn(message, now))]
    ELSE S

\* getSessionHistory(sessionId)
getSessionHistory(S, sessionId) ==
    IF hasSession(S, sessionId) THEN getSession(S, sessionId).chatHistory ELSE <<>>

\* addAudioChunk that keeps only the newest chunk.
addAudioChunk_Replace(S, sessionId, chunk) ==
    IF hasSession(S, sessionId)
    THEN [S EXCEPT ![SessionIndex(S, sessionId)].audioChunks = <<chunk>>]
    ELSE S

\* addAudioChunk(sessionId, chunk): activeSessions after the call.
addAudioChunk(S, sessionId, chunk) ==
    IF hasSession(S, sessionId)
    THEN [S EXCEPT ![SessionIndex(S, sessionId)].audioChunks = Append(@, chunk)]
    ELSE S

\* getAndClearAudioChunks(sessionId): the chunks returned.
getAndClearAudioChunks(S, sessionId) ==
    IF hasSession(S, sessionId) THEN getSession(S, sessionId).audioChunks ELSE <<>>

\* getAndClearAudioChunks that leaves the buffer as it is.
clearAudioChunks_Keep(S, sessionId) == S

\* getAndClearAudioChunks(sessionId): activeSessions after the call.
clearAudioChunks(S, sessionId) ==
    IF hasSession(S, sessionId)
    THEN [S EXCEPT ![SessionIndex(S, sessionId)].audioChunks = <<>>]
    ELSE S

(***************************************************************************)
(* store/escalationStore.js                                                *)
(*                                                                         *)
(* escalatedCalls is a Map that only grows (no handler calls               *)
(* deleteEscalation), so it is a sequence in creation order and an         *)
(* escalation's generated id is modelled by its position.                  *)
(*                                                                         *)
(* An escalation's history is a JavaScript array.  When handleEscalation   *)
(* passes sessionStore.getSessionHistory(sessionId), that array IS the     *)
(* session's chatHistory array (no copy is made); sharedHistory then names *)
(* the session whose chatHistory array the escalation holds, and every     *)
(* push to that array shows in both.  It is Null when the array is the     *)
(* message's fullHistory, and from the moment the session object is        *)
(* dropped from activeSessions (deleted or overwritten).                   *)
(***************************************************************************)
RECURSIVE Gcd(_, _)
Gcd(a, b) == IF b = 0 THEN a ELSE Gcd(b, a % b)

\* The number a / b (b > 0), in lowest terms.
Quotient(a, b) == LET g == Gcd(a, b) IN IF a = 0 THEN <<0, 1>> ELSE <<a \div g, b \div g>>

\* m.confidence with a missing score read as the score 0.
ConfidenceOf_MissingAsZero(m) ==
    IF Has(m, "confidence") /\ m.confidence # None THEN m.confidence ELSE Some(0)

\* m.confidence of a history entry: undefined and null are both <<>>.
ConfidenceOf(m) == IF Has(m, "confidence") THEN m.confidence ELSE None

\* Is `keyword` a substring of `text` (String.includes, RegExp.test)?
Includes(text, keyword) ==
    \/ text = "nearest station" /\ keyword \in {"nearest station", "station", "nearest"}
    \/ text = "my invoice" /\ keyword \in {"invoice"}

MatchesAny(allTexts, keywords) ==
    \E t \in allTexts : \E k \in keywords : Includes(t, k)

keywordPatterns ==
    << [pattern |-> {"invoice", "bill", "payment", "paisa"}, topic |-> "Invoice/Payment"],
       [pattern |-> {"battery", "swap", "charge"}, topic |-> "Battery/Swap"],
       [pattern |-> {"station", "location", "nearest"}, topic |-> "Station Location"],
       [pattern |-> {"problem", "issue", "help", "complaint"}, topic |-> "Support Issue"],
       [pattern |-> {"penalty", "fine", "late"}, topic |-> "Penalty Inquiry"] >>

\* generateQuickSummary(history): the topics found and the last user message
\* (every text of the model is shorter than 100 characters).
generateQuickSummary(history) ==
    IF Len(history) = 0 THEN [text |-> "No conversation history available."]
    ELSE LET userMessages == SelectSeq(history, LAMBDA m : m.sender = "user")
             texts == [i \in 1..Len(userMessages) |-> userMessages[i].text]
             lastUserMessage == IF Len(texts) > 0 THEN texts[Len(texts)] ELSE ""
             keywords == SelectSeq(keywordPatterns,
                             LAMBDA p : MatchesAny(Range(texts), p.pattern))
             topics == [i \in 1..Len(keywords) |-> keywords[i].topic]
         IN  [topics |-> IF Len(topics) > 0 THEN topics ELSE <<"General inquiry">>,
              last |-> lastUserMessage]

\* createEscalation that always computes the average confidence itself.
createEscalation_Derived(params, escalationId, now) ==
    LET history == params.history
        userMessages == SelectSeq(history, LAMBDA m : m.sender = "user")
        allScores == [i \in 1..Len(userMessages) |-> ConfidenceOf(userMessages[i])]
        confidenceScores == SelectSeq(allScores, LAMBDA c : c # None)
        calculatedAvgConfidence ==
            IF Len(confidenceScores) > 0
            THEN Quotient(SumSeq([i \in 1..Len(confidenceScores) |-> confidenceScores[i][1]]),
                          Len(confidenceScores))
            ELSE None
    IN  [id |-> escalationId,
         sessionId |-> params.sessionId,
         type |-> params.type,
         reason |-> params.reason,
         history |-> history,
         sharedHistory |-> params.sharedHistory,
         metrics |-> params.metrics,
         avgConfidence |-> calculatedAvgConfidence,
         summary |-> IF Has(params, "summary") /\ params.summary # ""
                     THEN [text |-> params.summary]
                     ELSE generateQuickSummary(history),
         status |-> "pending",
         createdAt |-> now,
         resolvedAt |-> None,
         resolvedBy |-> Null,
         customerPhone |-> OrString(params, "customerPhone", Null),
         customerName |-> OrString(params, "customerName", Null),
         stats |-> [totalTurns |-> Len(history),
                    userMessages |-> Len(userMessages),
                    botMessages |-> Len(SelectSeq(history, LAMBDA m : m.sender = "bot")),
                    lowConfidenceCount |->
                        Len(SelectSeq(confidenceScores, LAMBDA c : c[1] < 70)),
                    avgConfidence |-> calculatedAvgConfidence]]

\* createEscalation(params): the escalation object it builds.
createEscalation(params, escalationId, now) ==
    LET history == params.history
        userMessages == SelectSeq(history, LAMBDA m : m.sender = "user")
        allScores == [i \in 1..Len(userMessages) |-> ConfidenceOf(userMessages[i])]
        confidenceScores == SelectSeq(allScores, LAMBDA c : c # None)
        calculatedAvgConfidence ==
            IF Len(confidenceScores) > 0
            THEN Quotient(SumSeq([i \in 1..Len(confidenceScores) |-> confidenceScores[i][1]]),
                          Len(confidenceScores))
            ELSE None
    IN  [id |-> escalationId,
         sessionId |-> params.sessionId,
         type |-> params.type,
         reason |-> params.reason,
         history |-> history,
         sharedHistory |-> params.sharedHistory,
         metrics |-> params.metrics,
         avgConfidence |-> IF Has(params, "avgConfidence") /\ params.avgConfidence # None
                           THEN Quotient(params.avgConfidence[1], 100)
                           ELSE calculatedAvgConfidence,
         summary |-> IF Has(params, "summary") /\ params.summary # ""
                     THEN [text |-> params.summary]
                     ELSE generateQuickSummary(history),
         status |-> "pending",
         createdAt |-> now,
         resolvedAt |-> None,
         resolvedBy |-> Null,
         customerPhone |-> OrString(params, "customerPhone", Null),
         customerName |-> OrString(params, "customerName", Null),
         stats |-> [totalTurns |-> Len(history),
                    userMessages |-> Len(userMessages),
                    botMessages |-> Len(SelectSeq(history, LAMBDA m : m.sender = "bot")),
                    lowConfidenceCount |->
                        Len(SelectSeq(confidenceScores, LAMBDA c : c[1] < 70)),
                    avgConfidence |-> calculatedAvgConfidence]]

\* getEscalationBySessionId that only finds an escalation still pending.
getEscalationBySessionId_PendingOnly(E, sessionId) ==
    FindIndex({i \in 1..Len(E) : E[i].sessionId = sessionId /\ E[i].status = "pending"})

\* getEscalationBySessionId(sessionId): the position of the first escalation
\* of the session, whatever its status, or 0 (undefined).
getEscalationBySessionId(E, sessionId) ==
    FindIndex({i \in 1..Len(E) : E[i].sessionId = sessionId})

\* getPendingEscalations() that returns the resolved escalations too.
getPendingEscalations_All(E) == E

\* getPendingEscalations()
getPendingEscalations(E) == SelectSeq(E, LAMBDA e : e.status # "resolved")

\* updateEscalationStatus that stamps the resolution at every change of status.
updateEscalationStatus_Stamp(e, status, resolvedBy, now) ==
    [e EXCEPT !.status = status, !.resolvedAt = Some(now), !.resolvedBy = resolvedBy]

\* updateEscalationStatus(id, status, resolvedBy): the escalation after the call.
updateEscalationStatus(e, status, resolvedBy, now) ==
    IF status = "resolved"
    THEN [e EXCEPT !.status = status, !.resolvedAt = Some(now), !.resolvedBy = resolvedBy]
    ELSE [e EXCEPT !.status = status]

\* The escalations after a push of `message` onto the chatHistory array of
\* the live session `sessionId`: the escalation that holds the same array
\* sees the new entry.
PushShared(E, S, sessionId, message, now) ==
    IF hasSession(S, sessionId)
    THEN [i \in 1..Len(E) |->
            IF E[i].sharedHistory = sessionId
            THEN [E[i] EXCEPT !.history = Append(@, StoredTurn(message, now))]
            ELSE E[i]]
    ELSE E

\* The escalations after the session object `sessionId` left activeSessions:
\* its chatHistory array is now held by the escalation alone.
Unshare(E, sessionId) ==
    [i \in 1..Len(E) |->
        IF E[i].sharedHistory = sessionId THEN [E[i] EXCEPT !.sharedHistory = Null]
        ELSE E[i]]

(***************************************************************************)
(* services/pythonBackend.js and services/mockResponse.js                  *)
(***************************************************************************)
\* forwardAudioToPython: audioChunks.sort((a, b) => a.index - b.index), a
\* stable sort, here by insertion.
RECURSIVE InsertByIndex(_, _)
InsertByIndex(sorted, chunk) ==
    IF sorted = <<>> THEN <<chunk>>
    ELSE IF Head(sorted).index <= chunk.index
         THEN <<Head(sorted)>> \o InsertByIndex(Tail(sorted), chunk)
         ELSE <<chunk>> \o sorted

RECURSIVE SortByIndex(_)
SortByIndex(chunks) ==
    IF chunks = <<>> THEN <<>>
    ELSE InsertByIndex(SortByIndex(SubSeq(chunks, 1, Len(chunks) - 1)), chunks[Len(chunks)])

\* combinedAudio without the sort: the data of the chunks as they arrived.
combinedAudio_ArrivalOrder(audioChunks) ==
    [i \in 1..Len(audioChunks) |-> audioChunks[i].data]

\* forwardAudioToPython: the combined audio, the data of the sorted chunks.
combinedAudio(audioChunks) ==
    LET sorted == SortByIndex(audioChunks)
    IN  [i \in 1..Len(sorted) |-> sorted[i].data]

\* sendMockChatResponse: the keyword tests and the response chosen.  The five
\* MOCK_CHAT_RESPONSES differ only in their wording and are one value here.
mapsKeywords == {"nearest station", "swap station", "find station", "locate station",
                 "map", "nearby station", "closest station"}
invoiceKeywords == {"invoice", "bill", "payment", "last invoice", "billing", "receipt"}

isMapsRequest(userMessage) == MatchesAny({userMessage}, mapsKeywords)
isInvoiceRequest(userMessage) == MatchesAny({userMessage}, invoiceKeywords)

chatResponseFor(userMessage) ==
    IF isMapsRequest(userMessage) THEN "maps response"
    ELSE IF isInvoiceRequest(userMessage) THEN "invoice response"
    ELSE "mock chat response"

redirectFor(userMessage) ==
    IF isMapsRequest(userMessage) THEN "maps"
    ELSE IF isInvoiceRequest(userMessage) THEN "invoices"
    ELSE Null

\* fullResponse.split(' ').length: every response has StreamWords words here.
WordCount(fullResponse) == StreamWords

\* MOCK_TRANSCRIPT_WORDS.length
TranscriptWords == 13

\* A timer slot that holds no timer.
Idle == [kind |-> "idle"]

FreeSlots == {k \in DOMAIN streams : streams[k] = Idle}
FirstFree == CHOOSE k \in FreeSlots : \A j \in FreeSlots : k <= j

(***************************************************************************)
(* voicebot/page.jsx and voicebot/services/voiceSocket.js                  *)
(***************************************************************************)
\* What the client's event loop ran: a click, a data channel message, a
\* timeout, a poll, or the continuation of an async function; `threw` names
\* the exception a callback raised (and its caller caught), if any, and for a
\* data channel message botState is the state the page showed when it ran.
Ran(kind, name, threw) ==
    [kind |-> kind, name |-> name, message |-> [type |-> Null], threw |-> threw,
     botState |-> Null]

\* The client ran dataChannel.onmessage for this message.
RanMessage(message, threw) ==
    [kind |-> "message", name |-> message.type, message |-> message, threw |-> threw,
     botState |-> page.botState]

\* page.jsx: the callback given to voiceSocket.onStateChange
\* The state after the page has mounted and registered its callbacks.
ClientInit ==
    /\ page = [botState |-> "idle", isConnected |-> FALSE, isEscalated |-> FALSE,
               connectionError |-> FALSE]
    /\ voiceSocket = [peerConnection |-> Null, localStream |-> Null, dataChannel |-> Null,
                      isConnected |-> FALSE, sessionActive |-> FALSE,
                      statePollingInterval |-> Null]
    /\ timeouts = [pollStart |-> 0, cleanup |-> 0, listen |-> 0, disconnect |-> 0]
    /\ awaits = [connect |-> "none", stop |-> 0, escalate |-> 0, reset |-> 0, polls |-> 0]
    /\ handled = Ran("none", Null, "none")
    /\ cleanupRuns = 0

\* The state callback without the barge-in: 'listening' is ignored while the
\* page shows the bot speaking.
onStateChange_NoBargeIn(pg, state) ==
    IF state = "connected"
    THEN [pg EXCEPT !.isConnected = TRUE, !.botState = "listening",
                    !.connectionError = FALSE]
    ELSE IF state = "disconnected" THEN [pg EXCEPT !.isConnected = FALSE]
    ELSE IF state \in {"processing", "speaking"} \/ (state = "listening" /\ pg.botState # "speaking")
    THEN [pg EXCEPT !.botState = state]
    ELSE pg

\* page.jsx: the callback given to voiceSocket.onStateChange.
onStateChange(pg, state) ==
    IF state = "connected"
    THEN [pg EXCEPT !.isConnected = TRUE, !.botState = "listening",
                    !.connectionError = FALSE]
    ELSE IF state = "disconnected" THEN [pg EXCEPT !.isConnected = FALSE]
    ELSE IF state \in {"listening", "processing", "speaking"}
    THEN [pg EXCEPT !.botState = state]
    ELSE pg

\* page.jsx: the callback given to voiceSocket.onError
onError(pg) == [pg EXCEPT !.connectionError = TRUE, !.botState = "idle"]

\* VoiceSocketService.stopStatePolling
stopStatePolling(vs) == [vs EXCEPT !.statePollingInterval = Null]

\* VoiceSocketService.disconnect: the service after the call (its
\* onStateChangeCallback('disconnected') is applied by the caller).
disconnect(vs) ==
    [stopStatePolling(vs) EXCEPT !.dataChannel = Null, !.localStream = Null,
                                 !.peerConnection = Null, !.isConnected = FALSE,
                                 !.sessionActive = FALSE]

\* page.jsx cleanup(), up to its await of the session reset request.
cleanup(pending) ==
    /\ voiceSocket' = disconnect(voiceSocket)
    /\ page' = onStateChange(page, "disconnected")
    /\ awaits' = [pending EXCEPT !.reset = @ + 1]
    /\ cleanupRuns' = cleanupRuns + 1

\* page.jsx cleanup(), after the reset request settled: the page state is reset.
CleanupResetDone ==
    /\ awaits.reset > 0
    /\ awaits' = [awaits EXCEPT !.reset = @ - 1]
    /\ page' = [botState |-> "idle", isConnected |-> FALSE, isEscalated |-> FALSE,
                connectionError |-> FALSE]
    /\ handled' = Ran("await", "cleanup", "none")
    /\ UNCHANGED <<serverVars, voiceSocket, timeouts, cleanupRuns>>

\* The setTimeout(() => cleanup(), 2000) of the call-end handler and of
\* handleEscalate fires.
CleanupTimeout ==
    /\ timeouts.cleanup > 0
    /\ timeouts' = [timeouts EXCEPT !.cleanup = @ - 1]
    /\ cleanup(awaits)
    /\ handled' = Ran("timeout", "cleanup", "none")
    /\ UNCHANGED serverVars

\* page.jsx: the callback given to voiceSocket.onCallEnd.  showPopupRef is
\* not declared in the page, so reading it for the reason "issue_resolved"
\* raises a ReferenceError before the cleanup is scheduled.
onCallEndThrows(reason) == reason = "issue_resolved"

onCallEnd(t, reason) ==
    IF onCallEndThrows(reason) THEN t ELSE [t EXCEPT !.cleanup = @ + 1]

\* page.jsx: the callback given to voiceSocket.onToolActivation.  The
\* VoiceSocketService has no triggerEscalation method, so the call of it for
\* the tool escalate_to_agent raises a TypeError: the two state updates
\* before it are made, the setTimeout after it is never reached.
onToolActivationThrows(tool) == tool.name = "escalate_to_agent"

onToolActivation(pg, tool) ==
    IF tool.name = "escalate_to_agent"
    THEN [pg EXCEPT !.isEscalated = TRUE, !.botState = "idle"]
    ELSE pg

\* The timeout the tool callback sets for escalate_to_agent, after the call of
\* triggerEscalation: setTimeout(() => voiceSocket.disconnect(), 2000).
onToolActivationTimeouts(t, tool) ==
    IF tool.name = "escalate_to_agent" /\ ~onToolActivationThrows(tool)
    THEN [t EXCEPT !.disconnect = @ + 1]
    ELSE t

\* A tool that is absent: toolData is 'None'.
NoTool == [name |-> "None", reason |-> ""]

\* VoiceSocketService.handleAdditionalOutputs(data), data = [userText,
\* botResponse, toolData, latency]; an absent text is "".  Its try block
\* catches what the tool and call-end callbacks raise.
handleAdditionalOutputs(data) ==
    LET tool == data.toolData
        hasTool == tool.name # "None"
        afterTranscript ==
            IF data.userText # "" THEN [page EXCEPT !.botState = "processing"] ELSE page
        afterResponse ==
            IF data.botResponse # "" THEN [afterTranscript EXCEPT !.botState = "speaking"]
            ELSE afterTranscript
        listening ==
            IF data.botResponse # "" THEN [timeouts EXCEPT !.listen = @ + 1] ELSE timeouts
        endCall == hasTool /\ ~onToolActivationThrows(tool) /\ tool.name = "end_call"
        reason == IF tool.reason # "" THEN tool.reason ELSE "user_requested"
    IN  /\ page' = IF hasTool THEN onToolActivation(afterResponse, tool) ELSE afterResponse
        /\ timeouts' = IF endCall THEN onCallEnd(listening, reason)
                       ELSE IF hasTool THEN onToolActivationTimeouts(listening, tool)
                       ELSE listening
        /\ handled' =
               RanMessage([type |-> "fetch_output", data |-> data],
                          IF hasTool /\ onToolActivationThrows(tool) THEN "TypeError"
                          ELSE IF endCall /\ onCallEndThrows(reason) THEN "ReferenceError"
                          ELSE "none")

\* VoiceSocketService.handleDataChannelMessage(message), called by
\* dataChannel.onmessage while the channel is open.
handleDataChannelMessage(message) ==
    /\ voiceSocket.dataChannel # Null
    /\ IF message.type = "fetch_output" THEN handleAdditionalOutputs(message.data)
       ELSE /\ page' =
                  IF message.type = "log" /\ message.data = "pause_detected"
                  THEN onStateChange(page, "processing")
                  ELSE IF message.type = "log" /\ message.data = "response_starting"
                  THEN onStateChange(page, "speaking")
                  ELSE IF message.type = "log" /\ message.data = "started_talking"
                  THEN onStateChange(page, "listening")
                  ELSE IF message.type = "error" THEN onError(page)
                  ELSE page
            /\ handled' = RanMessage(message, "none")
            /\ UNCHANGED timeouts
    /\ UNCHANGED <<serverVars, voiceSocket, awaits, cleanupRuns>>

\* The setTimeout(() => setBotState("listening"), 3000) of the bot response
\* handler fires.
ListenTimeout ==
    /\ timeouts.listen > 0
    /\ timeouts' = [timeouts EXCEPT !.listen = @ - 1]
    /\ page' = [page EXCEPT !.botState = "listening"]
    /\ handled' = Ran("timeout", "listen", "none")
    /\ UNCHANGED <<serverVars, voiceSocket, awaits, cleanupRuns>>

\* startStatePolling: the 1500 ms timeout fires and sets the interval.
PollStartTimeout ==
    /\ timeouts.pollStart > 0
    /\ timeouts' = [timeouts EXCEPT !.pollStart = @ - 1]
    /\ voiceSocket' = [voiceSocket EXCEPT !.statePollingInterval = "interval"]
    /\ handled' = Ran("timeout", "pollStart", "none")
    /\ UNCHANGED <<serverVars, page, awaits, cleanupRuns>>

\* The polling interval fires: the state request is sent and awaited.
PollTick ==
    /\ voiceSocket.statePollingInterval # Null
    /\ awaits' = [awaits EXCEPT !.polls = @ + 1]
    /\ handled' = Ran("interval", "poll", "none")
    /\ UNCHANGED <<serverVars, page, voiceSocket, timeouts, cleanupRuns>>

\* The polling callback after its request settled with `state` (ok is FALSE
\* for a failed request or a response that is not ok).  What onCallEndCallback
\* raises is caught by the callback's try block, which skips the rest.
PollResponse(state) ==
    /\ awaits.polls > 0
    /\ awaits' = [awaits EXCEPT !.polls = @ - 1]
    /\ IF state.ok /\ state.is_active /\ state.should_end
       THEN IF onCallEndThrows(state.end_reason)
            THEN /\ handled' = Ran("await", "poll", "ReferenceError")
                 /\ UNCHANGED <<page, voiceSocket, timeouts>>
            ELSE /\ timeouts' = onCallEnd(timeouts, state.end_reason)
                 /\ voiceSocket' = disconnect(voiceSocket)
                 /\ page' = onStateChange(page, "disconnected")
                 /\ handled' = Ran("await", "poll", "none")
       ELSE /\ handled' = Ran("await", "poll", "none")
            /\ UNCHANGED <<page, voiceSocket, timeouts>>
    /\ UNCHANGED <<serverVars, cleanupRuns>>

\* peerConnection.onconnectionstatechange with connectionState = state.
PeerConnectionStateChange(state) ==
    /\ voiceSocket.peerConnection # Null
    /\ voiceSocket' = [voiceSocket EXCEPT !.isConnected = (state = "connected")]
    /\ page' = onStateChange(page, state)
    /\ handled' = Ran("connectionstatechange", state, "none")
    /\ UNCHANGED <<serverVars, timeouts, awaits, cleanupRuns>>

\* VoiceSocketService.startSession(), called by handleStartBot once connect()
\* returned true.
startSession(vs) ==
    IF vs.localStream = Null THEN vs ELSE [vs EXCEPT !.sessionActive = TRUE]

\* handleStartBot after `await voiceSocket.connect()` gave true.
Connected(vs) ==
    /\ voiceSocket' = startSession(vs)
    /\ page' = [page EXCEPT !.botState = "listening", !.isConnected = TRUE]

\* handleStartBot after `await voiceSocket.connect()` gave false: connect()'s
\* catch block called the error callback first.
NotConnected ==
    page' = [onError(page) EXCEPT !.connectionError = TRUE, !.botState = "idle"]

\* page.jsx handleStartBot, the start/stop button (disabled while the page is
\* connecting).  In a call it requests the end of the session and awaits the
\* answer; when idle it starts connecting and requests the backend reset.
HandleStartBot ==
    /\ page.botState # "connecting"
    /\ IF page.botState # "idle"
       THEN /\ awaits' = [awaits EXCEPT !.stop = @ + 1]
            /\ handled' = Ran("click", "stop", "none")
            /\ UNCHANGED <<page, cleanupRuns>>
       ELSE /\ awaits.connect = "none"
            /\ page' = [page EXCEPT !.botState = "connecting", !.connectionError = FALSE]
            /\ awaits' = [awaits EXCEPT !.connect = "reset"]
            /\ cleanupRuns' = 0
            /\ handled' = Ran("click", "start", "none")
    /\ UNCHANGED <<serverVars, voiceSocket, timeouts>>

\* handleStartBot, stopping: the session end request settled (its failure is
\* caught and ignored); cleanup() runs.
StopFetchDone ==
    /\ awaits.stop > 0
    /\ cleanup([awaits EXCEPT !.stop = @ - 1])
    /\ handled' = Ran("await", "stop", "none")
    /\ UNCHANGED <<serverVars, timeouts>>

\* handleStartBot, starting: the reset request settled.
ResetFetch(ok) ==
    /\ awaits.connect = "reset"
    /\ IF ok
       THEN /\ awaits' = [awaits EXCEPT !.connect = "delay"]
            /\ UNCHANGED page
       ELSE /\ awaits' = [awaits EXCEPT !.connect = "none"]
            /\ page' = [page EXCEPT !.connectionError = TRUE, !.botState = "idle"]
    /\ handled' = Ran("await", "reset", "none")
    /\ UNCHANGED <<serverVars, voiceSocket, timeouts, cleanupRuns>>

\* handleStartBot, starting: the 500 ms delay is over and connect() is called:
\* it returns true at once when the service is already connected, else it asks
\* for the microphone.
DelayDone ==
    /\ awaits.connect = "delay"
    /\ IF voiceSocket.isConnected
       THEN /\ awaits' = [awaits EXCEPT !.connect = "none"]
            /\ Connected(voiceSocket)
       ELSE /\ awaits' = [awaits EXCEPT !.connect = "media"]
            /\ UNCHANGED <<page, voiceSocket>>
    /\ handled' = Ran("await", "delay", "none")
    /\ UNCHANGED <<serverVars, timeouts, cleanupRuns>>

\* connect(): getUserMedia settled.  When it gave a stream the peer connection
\* and the data channel are created and the offer is made and sent.
GetUserMedia(ok) ==
    /\ awaits.connect = "media"
    /\ IF ok
       THEN /\ awaits' = [awaits EXCEPT !.connect = "offer"]
            /\ voiceSocket' = [voiceSocket EXCEPT !.localStream = "stream",
                                                  !.peerConnection = "peer",
                                                  !.dataChannel = "channel"]
            /\ UNCHANGED page
       ELSE /\ awaits' = [awaits EXCEPT !.connect = "none"]
            /\ NotConnected
            /\ UNCHANGED voiceSocket
    /\ handled' = Ran("await", "media", IF ok THEN "none" ELSE "NotAllowedError")
    /\ UNCHANGED <<serverVars, timeouts, cleanupRuns>>

\* VoiceSocketService.startStatePolling(): nothing when the interval is set,
\* else the 1500 ms timeout that will set it.
startStatePolling(t) ==
    IF voiceSocket.statePollingInterval # Null THEN t ELSE [t EXCEPT !.pollStart = @ + 1]

\* connect(): the answer to the offer arrived (ok is FALSE for a failed
\* request, a response that is not ok and a FastRTC error).  Setting the remote
\* description raises a TypeError when disconnect() cleared the peer
\* connection meanwhile.
Offer(ok) ==
    /\ awaits.connect = "offer"
    /\ awaits' = [awaits EXCEPT !.connect = "none"]
    /\ IF ok /\ voiceSocket.peerConnection # Null
       THEN /\ Connected([voiceSocket EXCEPT !.isConnected = TRUE, !.sessionActive = TRUE])
            /\ timeouts' = startStatePolling(timeouts)
            /\ handled' = Ran("await", "offer", "none")
       ELSE /\ NotConnected
            /\ handled' = Ran("await", "offer", IF ok THEN "TypeError" ELSE "Error")
            /\ UNCHANGED <<voiceSocket, timeouts>>
    /\ UNCHANGED <<serverVars, cleanupRuns>>

\* page.jsx handleEscalate, the escalate button (disabled when escalated or
\* idle): it requests the end of the session and awaits the answer.
HandleEscalate ==
    /\ ~page.isEscalated
    /\ page.botState # "idle"
    /\ page' = [page EXCEPT !.isEscalated = TRUE]
    /\ awaits' = [awaits EXCEPT !.escalate = @ + 1]
    /\ handled' = Ran("click", "escalate", "none")
    /\ UNCHANGED <<serverVars, voiceSocket, timeouts, cleanupRuns>>

\* handleEscalate: the request settled; cleanup is scheduled 2000 ms later.
EscalateFetchDone ==
    /\ awaits.escalate > 0
    /\ awaits' = [awaits EXCEPT !.escalate = @ - 1]
    /\ timeouts' = [timeouts EXCEPT !.cleanup = @ + 1]
    /\ handled' = Ran("await", "escalate", "none")
    /\ UNCHANGED <<serverVars, page, voiceSocket, cleanupRuns>>

(***************************************************************************)
(* server.js: the connection handler and the message dispatcher            *)
(***************************************************************************)
Init ==
    /\ readyState = [c \in Conns |-> WS_NEW]
    /\ wssClients = <<>>
    /\ clientSessionId = [c \in Conns |-> Null]
    /\ activeSessions = <<>>
    /\ sessionClients = [id \in AllIds |-> Null]
    /\ escalatedCalls = <<>>
    /\ streams = [k \in 1..MaxStreams |-> Idle]
    /\ sessionTranscripts = [id \in AllIds |-> None]
    /\ clock = 0
    /\ received = Event("none", Null)
    /\ sent = <<>>
    /\ audioLocals = [audioChunks |-> <<>>, combinedAudio |-> <<>>]
    /\ observed = [c \in Conns |-> Unobserved]
    /\ adminPage = NoAdminPage
    /\ ClientInit

\* wss.on('connection'): the socket joins wss.clients and is sent SYNC.
Connect(c) ==
    /\ readyState[c] = WS_NEW
    /\ readyState' = [readyState EXCEPT ![c] = WS_OPEN]
    /\ wssClients' = Append(wssClients, c)
    /\ clientSessionId' = [clientSessionId EXCEPT ![c] = Null]
    /\ received' = Event("connection", c)
    /\ sent' = sendToClient(readyState', c,
                   [type |-> "SYNC",
                    sessions |-> getAllSessions(activeSessions),
                    escalations |-> getPendingEscalations(escalatedCalls)])
    /\ UNCHANGED <<clientVars, activeSessions, sessionClients, escalatedCalls, streams,
                   sessionTranscripts, clock, audioLocals>>
    /\ Observe

\* handleSessionStart that announces the new session to nobody.
handleSessionStart_Silent(c, message, uuid) ==
    LET sessionId == IF Has(message, "id") THEN message.id ELSE uuid
    IN  /\ activeSessions' =
               createSession(activeSessions, sessionId, message.sessionType, clock)
        /\ sessionClients' = setSessionClient(sessionClients, sessionId, c)
        /\ escalatedCalls' = Unshare(escalatedCalls, sessionId)
        /\ sent' = <<>>
        /\ clientSessionId' = [clientSessionId EXCEPT ![c] = sessionId]

\* sessionHandler.handleSessionStart
handleSessionStart(c, message, uuid) ==
    LET sessionId == IF Has(message, "id") THEN message.id ELSE uuid
        S == createSession(activeSessions, sessionId, message.sessionType, clock)
    IN  /\ activeSessions' = S
        /\ sessionClients' = setSessionClient(sessionClients, sessionId, c)
        /\ escalatedCalls' = Unshare(escalatedCalls, sessionId)
        /\ sent' = broadcast(readyState, wssClients,
                       [type |-> "SESSION_STARTED", session |-> getSession(S, sessionId)])
        /\ clientSessionId' = [clientSessionId EXCEPT ![c] = sessionId]

\* An id uuidv4() can return: one that nothing in the server holds.
FreshUuids ==
    {u \in Uuids :
        /\ ~hasSession(activeSessions, u)
        /\ \A c \in Conns : clientSessionId[c] # u
        /\ \A i \in 1..Len(escalatedCalls) : escalatedCalls[i].sessionId # u
        /\ \A k \in DOMAIN streams : streams[k] = Idle \/ streams[k].sessionId # u
        /\ sessionTranscripts[u] = None}

\* case 'SESSION_START'
OnSessionStart(c, message) ==
    /\ readyState[c] = WS_OPEN
    /\ message.type = "SESSION_START"
    /\ \E uuid \in (IF Has(message, "id") THEN {Null} ELSE FreshUuids) :
           handleSessionStart(c, message, uuid)
    /\ received' = Message(c, message)
    /\ UNCHANGED <<clientVars, readyState, wssClients, streams, sessionTranscripts, clock, audioLocals>>
    /\ Observe

\* handleSessionEnd without its hasSession test.
handleSessionEnd_NoTest(message) ==
    /\ activeSessions' = deleteSession(activeSessions, message.id)
    /\ sessionClients' = deleteSessionClient(sessionClients, message.id)
    /\ escalatedCalls' = Unshare(escalatedCalls, message.id)
    /\ sent' = broadcast(readyState, wssClients,
                   [type |-> "SESSION_ENDED", id |-> message.id])

\* sessionHandler.handleSessionEnd
handleSessionEnd(message) ==
    IF hasSession(activeSessions, message.id)
    THEN /\ activeSessions' = deleteSession(activeSessions, message.id)
         /\ sessionClients' = deleteSessionClient(sessionClients, message.id)
         /\ escalatedCalls' = Unshare(escalatedCalls, message.id)
         /\ sent' = broadcast(readyState, wssClients,
                        [type |-> "SESSION_ENDED", id |-> message.id])
    ELSE /\ sent' = <<>>
         /\ UNCHANGED <<activeSessions, sessionClients, escalatedCalls>>

\* case 'SESSION_END'
OnSessionEnd(c, message) ==
    /\ readyState[c] = WS_OPEN
    /\ message.type = "SESSION_END"
    /\ handleSessionEnd(message)
    /\ clientSessionId' = [clientSessionId EXCEPT
                              ![c] = IF message.id = @ THEN Null ELSE @]
    /\ received' = Message(c, message)
    /\ UNCHANGED <<clientVars, readyState, wssClients, streams, sessionTranscripts, clock, audioLocals>>
    /\ Observe

\* sessionHandler.cleanupSession, with the socket already closed
cleanupSession(sessionId, rs, clients) ==
    IF sessionId # Null /\ hasSession(activeSessions, sessionId)
    THEN /\ activeSessions' = deleteSession(activeSessions, sessionId)
         /\ sessionClients' = deleteSessionClient(sessionClients, sessionId)
         /\ escalatedCalls' = Unshare(escalatedCalls, sessionId)
         /\ sent' = broadcast(rs, clients, [type |-> "SESSION_ENDED", id |-> sessionId])
    ELSE /\ sent' = <<>>
         /\ UNCHANGED <<activeSessions, sessionClients, escalatedCalls>>

\* ws.on('close'): the socket has left wss.clients and is no longer open.
Close(c) ==
    /\ readyState[c] = WS_OPEN
    /\ readyState' = [readyState EXCEPT ![c] = WS_CLOSED]
    /\ wssClients' = SelectSeq(wssClients, LAMBDA w : w # c)
    /\ cleanupSession(clientSessionId[c], readyState', wssClients')
    /\ received' = Event("close", c)
    /\ UNCHANGED <<clientVars, clientSessionId, streams, sessionTranscripts, clock, audioLocals>>
    /\ Observe

\* Time passes.
Tick ==
    /\ clock < MaxClock
    /\ clock' = clock + 1
    /\ received' = Event("none", Null)
    /\ sent' = <<>>
    /\ UNCHANGED <<clientVars, readyState, wssClients, clientSessionId, activeSessions, sessionClients,
                   escalatedCalls, streams, sessionTranscripts, audioLocals>>
    /\ Observe

(***************************************************************************)
(* handlers/chatHandler.js and the chat response timer                     *)
(***************************************************************************)
\* sendMockChatResponse starting the interval of sendMockResponse instead,
\* which ends with BOT_MESSAGE_END.
sendMockChatResponse_AsVoice(ws, sessionId, userMessage) ==
    [kind |-> "voice", phase |-> "interval", ws |-> ws, sessionId |-> sessionId,
     fullResponse |-> chatResponseFor(userMessage), currentIndex |-> 0,
     redirect |-> redirectFor(userMessage)]

\* sendMockChatResponse(ws, sessionId, userMessage): the setInterval it starts.
sendMockChatResponse(ws, sessionId, userMessage) ==
    [kind |-> "chat", phase |-> "interval", ws |-> ws, sessionId |-> sessionId,
     fullResponse |-> chatResponseFor(userMessage), currentIndex |-> 0,
     redirect |-> redirectFor(userMessage)]

\* handleChatMessage.  forwardChatToPython always throws, so the catch block
\* runs sendMockChatResponse in the same turn of the event loop.
handleChatMessage(message, ws, sessionId) ==
    IF sessionId = Null \/ ~hasSession(activeSessions, sessionId)
    THEN /\ sent' = sendToClient(readyState, ws,
                        [type |-> "ERROR", message |-> "No active session"])
         /\ UNCHANGED <<activeSessions, escalatedCalls, streams>>
    ELSE LET turn == [sender |-> "user", text |-> message.text]
         IN  /\ FreeSlots # {}
             /\ activeSessions' = addChatMessage(activeSessions, sessionId, turn, clock)
             /\ escalatedCalls' =
                    PushShared(escalatedCalls, activeSessions, sessionId, turn, clock)
             /\ sent' =
                    sendToClient(readyState, ws,
                        [type |-> "CHAT_ACK", messageId |-> message.messageId,
                         sessionId |-> sessionId])
                    \o sendToClient(readyState, ws,
                        [type |-> "CHAT_PROCESSING", sessionId |-> sessionId,
                         messageId |-> message.messageId])
             /\ streams' = [streams EXCEPT ![FirstFree] =
                               sendMockChatResponse(ws, sessionId, message.text)]

\* handleChatMessage for an active session evaluates text.substring(0, 50)
\* before anything else: without a text this raises a TypeError inside the
\* async function, outside its try block.
handleChatMessageRejects(message, sessionId) ==
    /\ sessionId # Null
    /\ hasSession(activeSessions, sessionId)
    /\ ~Has(message, "text")

\* The Node.js process has terminated: every socket is closed for good, no
\* timer is left and the stores are gone.
processExit ==
    /\ readyState' = [c \in Conns |-> WS_CLOSED]
    /\ wssClients' = <<>>
    /\ clientSessionId' = [c \in Conns |-> Null]
    /\ activeSessions' = <<>>
    /\ sessionClients' = [id \in AllIds |-> Null]
    /\ escalatedCalls' = <<>>
    /\ streams' = [k \in DOMAIN streams |-> Idle]
    /\ sessionTranscripts' = [id \in AllIds |-> None]
    /\ audioLocals' = [audioChunks |-> <<>>, combinedAudio |-> <<>>]
    /\ sent' = <<>>
    /\ observed' = [c \in Conns |-> Unobserved]
    /\ UNCHANGED <<clock, adminPage>>

\* The dispatcher calls the async handlers without awaiting them and without
\* a catch, so a rejected promise of theirs is an unhandled rejection: the
\* runtime either ends the process (the default since Node.js 15) or only
\* warns (older versions, or --unhandled-rejections=warn).
unhandledRejection(c, message) ==
    \/ /\ processExit
       /\ received' = Event("exit", c)
    \/ /\ received' = Message(c, message)
       /\ sent' = <<>>
       /\ UNCHANGED <<readyState, wssClients, clientSessionId, activeSessions, sessionClients,
                      escalatedCalls, streams, sessionTranscripts, clock, audioLocals,
                      observed, adminPage>>

\* case 'CHAT_MESSAGE'
OnChatMessage(c, message) ==
    /\ readyState[c] = WS_OPEN
    /\ message.type = "CHAT_MESSAGE"
    /\ IF handleChatMessageRejects(message, clientSessionId[c])
       THEN unhandledRejection(c, message)
       ELSE /\ handleChatMessage(message, c, clientSessionId[c])
            /\ received' = Message(c, message)
            /\ UNCHANGED <<readyState, wssClients, clientSessionId, sessionClients,
                           sessionTranscripts, clock, audioLocals>>
            /\ Observe
    /\ UNCHANGED clientVars

\* ws.on('message') for a payload that JSON.parse rejects (type Null here) or
\* whose type no case of the switch names: the catch block or the default
\* case logs it.
OnOtherMessage(c, message) ==
    /\ readyState[c] = WS_OPEN
    /\ message.type \notin {"SESSION_START", "SESSION_END", "AUDIO_DATA", "AUDIO_END",
                             "CHAT_MESSAGE", "ESCALATE", "ESCALATION_RESOLVE",
                             "ESCALATION_TAKE"}
    /\ received' = Message(c, message)
    /\ sent' = <<>>
    /\ UNCHANGED <<clientVars, readyState, wssClients, clientSessionId, activeSessions,
                   sessionClients, escalatedCalls, streams, sessionTranscripts, clock,
                   audioLocals, observed, adminPage>>

\* StreamTick whose last run does not record the bot's turn.
StreamTick_NoTurn(k) ==
    LET st == streams[k]
        endType == IF st.kind = "chat" THEN "CHAT_RESPONSE_END" ELSE "BOT_MESSAGE_END"
        partType == IF st.kind = "chat" THEN "CHAT_RESPONSE" ELSE "BOT_MESSAGE"
    IN  /\ st # Idle
        /\ st.phase = "interval"
        /\ IF st.currentIndex >= WordCount(st.fullResponse)
           THEN /\ UNCHANGED <<activeSessions, escalatedCalls>>
                /\ sent' = sendToClient(readyState, st.ws,
                               [type |-> endType, sessionId |-> st.sessionId,
                                fullText |-> st.fullResponse])
                /\ streams' = [streams EXCEPT ![k] =
                                  IF st.redirect # Null
                                  THEN [st EXCEPT !.phase = "popup"] ELSE Idle]
           ELSE /\ sent' = sendToClient(readyState, st.ws,
                               [type |-> partType, sessionId |-> st.sessionId,
                                words |-> st.currentIndex + 1,
                                isPartial |-> st.currentIndex < WordCount(st.fullResponse) - 1])
                /\ streams' = [streams EXCEPT ![k].currentIndex = @ + 1]
                /\ UNCHANGED <<activeSessions, escalatedCalls>>
        /\ received' = Timer(k)
        /\ UNCHANGED <<clientVars, readyState, wssClients, clientSessionId, sessionClients,
                       sessionTranscripts, clock, audioLocals>>
        /\ Observe

\* One run of the setInterval callback of sendMockChatResponse (kind "chat")
\* or of sendMockResponse (kind "voice").
StreamTick(k) ==
    LET st == streams[k]
        endType == IF st.kind = "chat" THEN "CHAT_RESPONSE_END" ELSE "BOT_MESSAGE_END"
        partType == IF st.kind = "chat" THEN "CHAT_RESPONSE" ELSE "BOT_MESSAGE"
        turn == [sender |-> "bot", text |-> st.fullResponse]
    IN  /\ st # Idle
        /\ st.phase = "interval"
        /\ IF st.currentIndex >= WordCount(st.fullResponse)
           THEN /\ activeSessions' = addChatMessage(activeSessions, st.sessionId, turn, clock)
                /\ escalatedCalls' =
                       PushShared(escalatedCalls, activeSessions, st.sessionId, turn, clock)
                /\ sent' = sendToClient(readyState, st.ws,
                               [type |-> endType, sessionId |-> st.sessionId,
                                fullText |-> st.fullResponse])
                /\ streams' = [streams EXCEPT ![k] =
                                  IF st.redirect # Null
                                  THEN [st EXCEPT !.phase = "popup"] ELSE Idle]
           ELSE /\ sent' = sendToClient(readyState, st.ws,
                               [type |-> partType, sessionId |-> st.sessionId,
                                words |-> st.currentIndex + 1,
                                isPartial |-> st.currentIndex < WordCount(st.fullResponse) - 1])
                /\ streams' = [streams EXCEPT ![k].currentIndex = @ + 1]
                /\ UNCHANGED <<activeSessions, escalatedCalls>>
        /\ received' = Timer(k)
        /\ UNCHANGED <<clientVars, readyState, wssClients, clientSessionId, sessionClients,
                       sessionTranscripts, clock, audioLocals>>
        /\ Observe

\* The 300 ms timeout that sends REDIRECT_POPUP after a maps or invoice reply.
PopupTimer(k) ==
    LET st == streams[k]
    IN  /\ st # Idle
        /\ st.phase = "popup"
        /\ sent' = sendToClient(readyState, st.ws,
                       [type |-> "REDIRECT_POPUP", redirectType |-> st.redirect,
                        sessionId |-> st.sessionId])
        /\ streams' = [streams EXCEPT ![k] = Idle]
        /\ received' = Timer(k)
        /\ UNCHANGED <<clientVars, readyState, wssClients, clientSessionId, activeSessions,
                       sessionClients, escalatedCalls, sessionTranscripts, clock,
                       audioLocals>>
        /\ Observe

\* The 500 ms timeout of sendMockResponse: it picks the response and starts
\* the interval.  The five MOCK_VOICE_RESPONSES are one value here.
VoiceDelayTimer(k) ==
    LET st == streams[k]
    IN  /\ st # Idle
        /\ st.phase = "delay"
        /\ streams' = [streams EXCEPT ![k] =
                          [st EXCEPT !.phase = "interval",
                                     !.fullResponse = "mock voice response"]]
        /\ sent' = <<>>
        /\ received' = Timer(k)
        /\ UNCHANGED <<clientVars, readyState, wssClients, clientSessionId, activeSessions,
                       sessionClients, escalatedCalls, sessionTranscripts, clock,
                       audioLocals>>
        /\ Observe

(***************************************************************************)
(* handlers/audioHandler.js                                                *)
(***************************************************************************)
\* sendMockTranscriptUpdate: the number of transcript words sent.
transcriptWordCount(chunkIndex) ==
    IF chunkIndex + 1 < TranscriptWords THEN chunkIndex + 1 ELSE TranscriptWords

\* handleAudioData without the test for a live session.
handleAudioData_Unchecked(message, ws, sessionId) ==
    /\ activeSessions' = addAudioChunk(activeSessions, sessionId,
                             [data |-> message.audioData, index |-> message.chunkIndex,
                              timestamp |-> clock])
    /\ sent' = sendToClient(readyState, ws,
                   [type |-> "AUDIO_ACK", chunkIndex |-> message.chunkIndex,
                    sessionId |-> sessionId])
    /\ UNCHANGED sessionTranscripts

\* handleAudioData.  transcribeAudioChunk always throws, so the catch block
\* runs sendMockTranscriptUpdate in the same turn of the event loop.
handleAudioData(message, ws, sessionId) ==
    IF sessionId = Null \/ ~hasSession(activeSessions, sessionId)
    THEN /\ sent' = sendToClient(readyState, ws,
                        [type |-> "ERROR", message |-> "No active session"])
         /\ UNCHANGED <<activeSessions, sessionTranscripts>>
    ELSE /\ activeSessions' = addAudioChunk(activeSessions, sessionId,
                                  [data |-> message.audioData,
                                   index |-> message.chunkIndex,
                                   timestamp |-> clock])
         /\ sessionTranscripts' = [sessionTranscripts EXCEPT ![sessionId] =
                                      Some(transcriptWordCount(message.chunkIndex))]
         /\ sent' =
                sendToClient(readyState, ws,
                    [type |-> "AUDIO_ACK", chunkIndex |-> message.chunkIndex,
                     sessionId |-> sessionId])
                \o sendToClient(readyState, ws,
                    [type |-> "TRANSCRIPT_UPDATE", sessionId |-> sessionId,
                     transcript |-> transcriptWordCount(message.chunkIndex),
                     isFinal |-> transcriptWordCount(message.chunkIndex) >= TranscriptWords])

\* case 'AUDIO_DATA'
OnAudioData(c, message) ==
    /\ readyState[c] = WS_OPEN
    /\ message.type = "AUDIO_DATA"
    /\ handleAudioData(message, c, clientSessionId[c])
    /\ received' = Message(c, message)
    /\ UNCHANGED <<clientVars, readyState, wssClients, clientSessionId, sessionClients,
                   escalatedCalls, streams, clock, audioLocals>>
    /\ Observe

\* handleAudioEnd.  forwardAudioToPython sorts the drained array, combines it
\* and throws, so the catch block runs sendMockResponse in the same turn; its
\* MOCK_TRANSCRIPTS are one value here.
handleAudioEnd(message, ws, sessionId) ==
    IF sessionId = Null \/ ~hasSession(activeSessions, sessionId)
    THEN /\ sent' = <<>>
         /\ UNCHANGED <<activeSessions, streams, audioLocals>>
    ELSE LET audioChunks == getAndClearAudioChunks(activeSessions, sessionId)
         IN  /\ FreeSlots # {}
             /\ activeSessions' = clearAudioChunks(activeSessions, sessionId)
             /\ audioLocals' = [audioChunks |-> audioChunks,
                                combinedAudio |-> combinedAudio(audioChunks)]
             /\ sent' =
                    sendToClient(readyState, ws,
                        [type |-> "PROCESSING_STARTED", sessionId |-> sessionId])
                    \o sendToClient(readyState, ws,
                        [type |-> "USER_TRANSCRIPT", sessionId |-> sessionId,
                         transcript |-> "mock transcript"])
             /\ streams' = [streams EXCEPT ![FirstFree] =
                               [kind |-> "voice", phase |-> "delay", ws |-> ws,
                                sessionId |-> sessionId, fullResponse |-> Null,
                                currentIndex |-> 0, redirect |-> Null]]

\* case 'AUDIO_END'
OnAudioEnd(c, message) ==
    /\ readyState[c] = WS_OPEN
    /\ message.type = "AUDIO_END"
    /\ handleAudioEnd(message, c, clientSessionId[c])
    /\ received' = Message(c, message)
    /\ UNCHANGED <<clientVars, readyState, wssClients, clientSessionId, sessionClients,
                   escalatedCalls, sessionTranscripts, clock>>
    /\ Observe

(***************************************************************************)
(* handlers/escalationHandler.js                                           *)
(***************************************************************************)
\* The fields of `message` that are present among `fields`.
Pick(message, fields) ==
    [f \in (DOMAIN message) \cap fields |-> message[f]]

\* fullHistory.forEach(msg => sessionStore.addChatMessage(sessionId, msg))
RECURSIVE addAll(_, _, _, _)
addAll(S, sessionId, msgs, now) ==
    IF msgs = <<>> THEN S
    ELSE addAll(addChatMessage(S, sessionId, Head(msgs), now), sessionId, Tail(msgs), now)

\* handleEscalation
handleEscalation(message, ws, sessionId) ==
    IF sessionId = Null \/ ~hasSession(activeSessions, sessionId)
    THEN /\ sent' = sendToClient(readyState, ws,
                        [type |-> "ERROR", message |-> "No active session"])
         /\ UNCHANGED <<activeSessions, escalatedCalls>>
    ELSE LET existingEscalation == getEscalationBySessionId(escalatedCalls, sessionId)
         IN  IF existingEscalation # 0
             THEN /\ sent' = sendToClient(readyState, ws,
                                 [type |-> "ESCALATION_EXISTS",
                                  escalationId |-> escalatedCalls[existingEscalation].id])
                  /\ UNCHANGED <<activeSessions, escalatedCalls>>
             ELSE LET session == getSession(activeSessions, sessionId)
                      fromMessage == Has(message, "fullHistory")
                      history == IF fromMessage THEN message.fullHistory
                                 ELSE getSessionHistory(activeSessions, sessionId)
                      escalation ==
                          createEscalation(
                              [sessionId |-> sessionId,
                               type |-> session.type,
                               reason |-> OrString(message, "reason",
                                              "User requested agent assistance"),
                               history |-> history,
                               sharedHistory |-> IF fromMessage THEN Null ELSE sessionId,
                               metrics |-> OrString(message, "metrics", "{}")]
                              @@ Pick(message, {"avgConfidence", "summary",
                                                "customerPhone", "customerName"}),
                              Len(escalatedCalls) + 1, clock)
                  IN  /\ activeSessions' =
                             IF fromMessage
                             THEN addAll(activeSessions, sessionId, message.fullHistory, clock)
                             ELSE activeSessions
                      /\ escalatedCalls' = Append(escalatedCalls, escalation)
                      /\ sent' =
                             sendToClient(readyState, ws,
                                 [type |-> "ESCALATION_TRIGGERED",
                                  escalationId |-> escalation.id,
                                  message |-> "Connecting you to an agent..."])
                             \o broadcast(readyState, wssClients,
                                 [type |-> "ESCALATION_NEW", escalation |-> escalation])

\* case 'ESCALATE'
OnEscalate(c, message) ==
    /\ readyState[c] = WS_OPEN
    /\ message.type = "ESCALATE"
    /\ handleEscalation(message, c, clientSessionId[c])
    /\ received' = Message(c, message)
    /\ UNCHANGED <<clientVars, readyState, wssClients, clientSessionId, sessionClients, streams,
                   sessionTranscripts, clock, audioLocals>>
    /\ Observe

\* escalatedCalls.get(id) that falls back to the oldest escalation.
getEscalation_First(E, id) == IF id \in 1..Len(E) THEN id ELSE IF E # <<>> THEN 1 ELSE 0

\* escalatedCalls.get(id): the position of the escalation, or 0 (undefined).
getEscalation(E, id) == IF id \in 1..Len(E) THEN id ELSE 0

\* handleEscalationResolve
handleEscalationResolve(message, ws) ==
    LET i == getEscalation(escalatedCalls, message.escalationId)
        resolvedBy == OrString(message, "resolvedBy", "admin")
    IN  IF i = 0
        THEN /\ sent' = sendToClient(readyState, ws,
                            [type |-> "ERROR", message |-> "Escalation not found"])
             /\ UNCHANGED escalatedCalls
        ELSE LET escalation ==
                     updateEscalationStatus(escalatedCalls[i], "resolved", resolvedBy, clock)
                 sessionClient == getSessionClient(sessionClients, escalation.sessionId)
             IN  /\ escalatedCalls' = [escalatedCalls EXCEPT ![i] = escalation]
                 /\ sent' =
                        broadcast(readyState, wssClients,
                            [type |-> "ESCALATION_RESOLVED",
                             escalationId |-> message.escalationId,
                             resolvedBy |-> resolvedBy])
                        \o sendToClient(readyState, sessionClient,
                            [type |-> "ESCALATION_RESOLVED",
                             escalationId |-> message.escalationId,
                             message |-> "An agent has resolved your request."])

\* case 'ESCALATION_RESOLVE'
OnEscalationResolve(c, message) ==
    /\ readyState[c] = WS_OPEN
    /\ message.type = "ESCALATION_RESOLVE"
    /\ handleEscalationResolve(message, c)
    /\ received' = Message(c, message)
    /\ UNCHANGED <<clientVars, readyState, wssClients, clientSessionId, activeSessions, sessionClients,
                   streams, sessionTranscripts, clock, audioLocals>>
    /\ Observe

\* handleEscalationTake
handleEscalationTake(message, ws) ==
    LET i == getEscalation(escalatedCalls, message.escalationId)
    IN  IF i = 0
        THEN /\ sent' = sendToClient(readyState, ws,
                            [type |-> "ERROR", message |-> "Escalation not found"])
             /\ UNCHANGED escalatedCalls
        ELSE LET escalation ==
                     updateEscalationStatus(escalatedCalls[i], "in-progress", Null, clock)
             IN  /\ escalatedCalls' = [escalatedCalls EXCEPT ![i] = escalation]
                 /\ sent' = broadcast(readyState, wssClients,
                                [type |-> "ESCALATION_UPDATED", escalation |-> escalation])

\* case 'ESCALATION_TAKE'
OnEscalationTake(c, message) ==
    /\ readyState[c] = WS_OPEN
    /\ message.type = "ESCALATION_TAKE"
    /\ handleEscalationTake(message, c)
    /\ received' = Message(c, message)
    /\ UNCHANGED <<clientVars, readyState, wssClients, clientSessionId, activeSessions, sessionClients,
                   streams, sessionTranscripts, clock, audioLocals>>
    /\ Observe

(***************************************************************************)
(* The inbound messages of the model.                                      *)
(***************************************************************************)
StartMessage(id, t) == [type |-> "SESSION_START", id |-> id, sessionType |-> t]
StartMessageNoId(t) == [type |-> "SESSION_START", sessionType |-> t]
EndMessage(id) == [type |-> "SESSION_END", id |-> id]
ChatMessage(t) == [type |-> "CHAT_MESSAGE", text |-> t, messageId |-> "m"]
ResolveMessage(e) == [type |-> "ESCALATION_RESOLVE", escalationId |-> e]
ResolveMessageBy(e, who) ==
    [type |-> "ESCALATION_RESOLVE", escalationId |-> e, resolvedBy |-> who]
TakeMessage(e) == [type |-> "ESCALATION_TAKE", escalationId |-> e, takenBy |-> "agent7"]
AudioDataMessage(d, i) == [type |-> "AUDIO_DATA", audioData |-> d, chunkIndex |-> i]
AudioEndMessage == [type |-> "AUDIO_END"]

\* Escalation ids a console can name: those issued so far and one never issued (0).
EscalationIds == 0..Len(escalatedCalls)

\* The session of connection c, when it is live.
LiveSessionOf(c) ==
    IF clientSessionId[c] # Null /\ hasSession(activeSessions, clientSessionId[c])
    THEN <<getSession(activeSessions, clientSessionId[c])>> ELSE <<>>

\* The transcript of c's session has room for n more turns.
RoomForTurns(c, n, max) ==
    \A s \in Range(LiveSessionOf(c)) : Len(s.chatHistory) + n <= max

\* The audio buffer of c's session has room for one more chunk.
RoomForChunk(c, max) ==
    \A s \in Range(LiveSessionOf(c)) : Len(s.audioChunks) < max

(***************************************************************************)
(* Spec: the whole chat and escalation protocol for one session id and two *)
(* connections.                                                            *)
(***************************************************************************)
EscalateMessages ==
    { [type |-> "ESCALATE"],
      [type |-> "ESCALATE",
       fullHistory |-> <<[sender |-> "user", text |-> "hi", confidence |-> Some(0)],
                         [sender |-> "bot", text |-> "mock chat response"]>>] }

Next ==
    \/ \E c \in Conns : Connect(c)
    \/ \E c \in Conns : Close(c)
    \/ \E c \in Conns : OnSessionStart(c, StartMessage("s1", "chat"))
    \/ \E c \in Conns : OnSessionEnd(c, EndMessage("s1"))
    \/ \E c \in Conns :
          RoomForTurns(c, 2, MaxTurns) /\ OnChatMessage(c, ChatMessage("nearest station"))
    \/ \E c \in Conns, m \in EscalateMessages :
          RoomForTurns(c, 2, MaxTurns) /\ OnEscalate(c, m)
    \/ \E c \in Conns, e \in EscalationIds : OnEscalationResolve(c, ResolveMessage(e))
    \/ \E c \in Conns, e \in EscalationIds : OnEscalationTake(c, TakeMessage(e))
    \/ \E k \in DOMAIN streams : StreamTick(k)
    \/ \E k \in DOMAIN streams : PopupTimer(k)

Spec == Init /\ [][Next]_vars

(***************************************************************************)
(* SpecSession: the session registry alone: two client-named ids and one   *)
(* server-generated id, both session types, two connections that start and *)
(* end sessions and disconnect.                                            *)
(***************************************************************************)
NextSession ==
    \/ \E c \in Conns : Connect(c)
    \/ \E c \in Conns : Close(c)
    \/ \E c \in Conns, id \in SessionIds, t \in SessionTypes :
          OnSessionStart(c, StartMessage(id, t))
    \/ \E c \in Conns : OnSessionStart(c, StartMessageNoId("chat"))
    \/ \E c \in Conns, id \in AllIds : OnSessionEnd(c, EndMessage(id))

SpecSession == Init /\ [][NextSession]_vars

(***************************************************************************)
(* SpecTurns: the transcript of one session id: chat messages, the         *)
(* response timers that add the bot turns, escalations that carry a        *)
(* history, and the session ended and started again under them.            *)
(***************************************************************************)
TwoTurns ==
    << [sender |-> "user", text |-> "hi", confidence |-> Some(0)],
       [sender |-> "bot", text |-> "mock chat response"] >>

NextTurns ==
    \/ \E c \in Conns : Connect(c)
    \/ \E c \in Conns : Close(c)
    \/ \E c \in Conns : OnSessionStart(c, StartMessage("s1", "chat"))
    \/ \E c \in Conns : OnSessionEnd(c, EndMessage("s1"))
    \/ \E c \in Conns, t \in {"hi", "nearest station"} :
          RoomForTurns(c, 1, MaxTranscript) /\ OnChatMessage(c, ChatMessage(t))
    \/ \E c \in Conns :
          /\ RoomForTurns(c, 2, MaxTranscript)
          /\ OnEscalate(c, [type |-> "ESCALATE", fullHistory |-> TwoTurns])
    \/ \E k \in DOMAIN streams : StreamTick(k)
    \/ \E k \in DOMAIN streams : PopupTimer(k)

SpecTurns == Init /\ [][NextTurns]_vars

(***************************************************************************)
(* SpecEsc: the escalation life cycle: two session ids, two connections,   *)
(* sessions started, ended and restarted, escalations raised, taken and    *)
(* resolved.  No transcript grows here, so no escalation history does.     *)
(***************************************************************************)
NextEsc ==
    \/ \E c \in Conns : Connect(c)
    \/ \E c \in Conns : Close(c)
    \/ \E c \in Conns, id \in SessionIds : OnSessionStart(c, StartMessage(id, "voice"))
    \/ \E c \in Conns, id \in SessionIds : OnSessionEnd(c, EndMessage(id))
    \/ \E c \in Conns : OnEscalate(c, [type |-> "ESCALATE"])
    \/ \E c \in Conns, e \in EscalationIds : OnEscalationResolve(c, ResolveMessage(e))
    \/ \E c \in Conns, e \in EscalationIds : OnEscalationTake(c, TakeMessage(e))

SpecEsc == Init /\ [][NextEsc]_vars

(***************************************************************************)
(* SpecAudio: the audio buffer of one voice session on one connection:     *)
(* chunks arrive with any sequence number, AUDIO_END drains and combines   *)
(* them, and the voice response timers run; a recording ends only when no  *)
(* earlier response is still streaming.                                    *)
(***************************************************************************)
\* The chunks a client records: each carries its own sequence number, and a
\* chunk can be sent late or sent again.
AudioMessages ==
    {AudioDataMessage("a", 0), AudioDataMessage("b", 1), AudioDataMessage("c", 2)}

NextAudio ==
    \/ Connect("c1")
    \/ OnSessionStart("c1", StartMessage("s1", "voice"))
    \/ OnSessionEnd("c1", EndMessage("s1"))
    \/ \E m \in AudioMessages : RoomForChunk("c1", MaxChunks) /\ OnAudioData("c1", m)
    \/ /\ RoomForTurns("c1", 1, MaxTurns)
       /\ FreeSlots = DOMAIN streams
       /\ OnAudioEnd("c1", AudioEndMessage)
    \/ \E k \in DOMAIN streams : VoiceDelayTimer(k)
    \/ \E k \in DOMAIN streams : StreamTick(k)

SpecAudio == Init /\ [][NextAudio]_vars

(***************************************************************************)
(* SpecStats: the statistics of an escalation: one session on one          *)
(* connection is escalated with a history of up to MaxHistory turns, sent  *)
(* by the user or the bot, with a confidence (in hundredths) that is       *)
(* missing, null, or a number below, at or above the threshold.  The       *)
(* session is escalated once, while it is live.                            *)
(***************************************************************************)
HistoryEntries ==
    { [sender |-> "user", text |-> "hi"],
      [sender |-> "user", text |-> "hi", confidence |-> None],
      [sender |-> "user", text |-> "hi", confidence |-> Some(30)],
      [sender |-> "user", text |-> "hi", confidence |-> Some(50)],
      [sender |-> "user", text |-> "hi", confidence |-> Some(70)],
      [sender |-> "user", text |-> "hi", confidence |-> Some(90)],
      [sender |-> "bot", text |-> "mock chat response", confidence |-> Some(30)] }

Histories == UNION {[1..n -> HistoryEntries] : n \in 0..MaxHistory}

StatsMessages ==
    {[type |-> "ESCALATE", fullHistory |-> h] : h \in Histories}
    \cup {[type |-> "ESCALATE", fullHistory |-> h, avgConfidence |-> a] :
             h \in {h \in Histories : Len(h) <= 1}, a \in {None, Some(80)}}
    \cup {[type |-> "ESCALATE"]}

NextStats ==
    \/ Connect("c1")
    \/ OnSessionStart("c1", StartMessage("s1", "voice"))
    \/ OnSessionEnd("c1", EndMessage("s1"))
    \/ /\ escalatedCalls = <<>>
       /\ LiveSessionOf("c1") # <<>>
       /\ \E m \in StatsMessages : OnEscalate("c1", m)
    \/ Tick

SpecStats == Init /\ [][NextStats]_vars

(***************************************************************************)
(* SpecChatLive: one chat session id and two connections that disconnect,  *)
(* with the timers of Node.js: an interval that has been set keeps firing  *)
(* until it is cleared, and a timeout that has been set fires.             *)
(***************************************************************************)
NextChat ==
    \/ \E c \in Conns : Connect(c)
    \/ \E c \in Conns : Close(c)
    \/ \E c \in Conns : OnSessionStart(c, StartMessage("s1", "chat"))
    \/ \E c \in Conns : OnSessionEnd(c, EndMessage("s1"))
    \/ \E c \in Conns, t \in {"hi", "nearest station"} :
          RoomForTurns(c, 2, MaxTurns) /\ OnChatMessage(c, ChatMessage(t))
    \/ \E k \in DOMAIN streams : StreamTick(k)
    \/ \E k \in DOMAIN streams : PopupTimer(k)

SpecChatLive ==
    /\ Init /\ [][NextChat]_vars
    /\ \A k \in 1..MaxStreams : WF_vars(StreamTick(k)) /\ WF_vars(PopupTimer(k))

(***************************************************************************)
(* SpecOrder: what each observer is sent, in order: two connections that   *)
(* join early or late and disconnect, two sessions that start and end, and *)
(* escalations of them.                                                    *)
(***************************************************************************)
NextOrder ==
    \/ \E c \in Conns : Connect(c)
    \/ \E c \in Conns : Close(c)
    \/ \E c \in Conns, id \in SessionIds : OnSessionStart(c, StartMessage(id, "voice"))
    \/ \E c \in Conns, id \in SessionIds : OnSessionEnd(c, EndMessage(id))
    \/ \E c \in Conns : OnEscalate(c, [type |-> "ESCALATE"])

SpecOrder == Init /\ [][NextOrder]_vars

(***************************************************************************)
(* SpecReject: commands of connections with and without a live session:   *)
(* two connections, one session id that starts and ends, audio chunks and  *)
(* escalation requests, and chat messages of connections without session.  *)
(***************************************************************************)
NextReject ==
    \/ \E c \in Conns : Connect(c)
    \/ \E c \in Conns : Close(c)
    \/ \E c \in Conns : OnSessionStart(c, StartMessage("s1", "chat"))
    \/ \E c \in Conns : OnSessionEnd(c, EndMessage("s1"))
    \/ \E c \in Conns : RoomForChunk(c, MaxChunks) /\ OnAudioData(c, AudioDataMessage("a", 0))
    \/ \E c \in Conns : LiveSessionOf(c) = <<>> /\ OnChatMessage(c, ChatMessage("hi"))
    \/ \E c \in Conns : OnEscalate(c, [type |-> "ESCALATE"])

SpecReject == Init /\ [][NextReject]_vars

(***************************************************************************)
(* SpecConsole: the agent console's commands: one session id that a        *)
(* connection starts, escalates and ends, two connections that take and    *)
(* resolve escalations by ids issued and not issued, and the clock.        *)
(***************************************************************************)
NextConsole ==
    \/ \E c \in Conns : Connect(c)
    \/ \E c \in Conns : Close(c)
    \/ \E c \in Conns : OnSessionStart(c, StartMessage("s1", "voice"))
    \/ \E c \in Conns : OnSessionEnd(c, EndMessage("s1"))
    \/ \E c \in Conns : OnEscalate(c, [type |-> "ESCALATE"])
    \/ \E c \in Conns, e \in EscalationIds : OnEscalationTake(c, TakeMessage(e))
    \/ \E c \in Conns, e \in EscalationIds :
          \/ OnEscalationResolve(c, ResolveMessage(e))
          \/ OnEscalationResolve(c, ResolveMessageBy(e, "agent7"))
    \/ Tick

SpecConsole == Init /\ [][NextConsole]_vars

(***************************************************************************)
(* SpecCreate: what an escalation is created from: one chat session with a *)
(* transcript of its own is escalated by a message that carries or omits a *)
(* history (empty or not), metrics, an average confidence (null, 0 or      *)
(* 0.80) and a summary (empty or not).                                     *)
(***************************************************************************)
OneTurn == <<[sender |-> "user", text |-> "nearest station", confidence |-> Some(50)]>>

\* The records with some of the fields of `full`.
Partial(full) ==
    {[f \in D |-> full[f]] : D \in SUBSET DOMAIN full}

CreateMessages ==
    {[type |-> "ESCALATE"] @@ h @@ m @@ a @@ t :
        h \in {<<>>} \cup {[fullHistory |-> x] : x \in {<<>>, OneTurn}},
        m \in Partial([metrics |-> "stt 120 ms"]),
        a \in {<<>>} \cup {[avgConfidence |-> x] : x \in {None, Some(0), Some(80)}},
        t \in {<<>>} \cup {[summary |-> x] : x \in {"", "wants an agent"}}}

NextCreate ==
    \/ Connect("c1")
    \/ OnSessionStart("c1", StartMessage("s1", "chat"))
    \/ OnSessionEnd("c1", EndMessage("s1"))
    \/ RoomForTurns("c1", 2, MaxTurns) /\ OnChatMessage("c1", ChatMessage("hi"))
    \/ \E k \in DOMAIN streams : StreamTick(k)
    \/ /\ escalatedCalls = <<>>
       /\ LiveSessionOf("c1") # <<>>
       /\ \E m \in CreateMessages : OnEscalate("c1", m)

SpecCreate == Init /\ [][NextCreate]_vars

(***************************************************************************)
(* SpecAdmin: an agent console is open on connection c2 from the start;    *)
(* connection c1 starts, ends and escalates a session and disconnects, and *)
(* the console takes and resolves the escalation.  The console's session   *)
(* list grows with every SESSION_STARTED, so sessions are started only     *)
(* while it lists fewer than MaxListed.                                    *)
(***************************************************************************)
MaxListed == 3

InitAdmin ==
    /\ readyState = [c \in Conns |-> WS_NEW]
    /\ wssClients = <<>>
    /\ clientSessionId = [c \in Conns |-> Null]
    /\ activeSessions = <<>>
    /\ sessionClients = [id \in AllIds |-> Null]
    /\ escalatedCalls = <<>>
    /\ streams = [k \in 1..MaxStreams |-> Idle]
    /\ sessionTranscripts = [id \in AllIds |-> None]
    /\ clock = 0
    /\ received = Event("none", Null)
    /\ sent = <<>>
    /\ audioLocals = [audioChunks |-> <<>>, combinedAudio |-> <<>>]
    /\ observed = [c \in Conns |-> Unobserved]
    /\ adminPage = AdminPage("c2")
    /\ ClientInit

NextAdmin ==
    \/ \E c \in Conns : Connect(c)
    \/ Close("c1")
    \/ \E id \in SessionIds :
          /\ Len(adminPage.sessions) < MaxListed
          /\ OnSessionStart("c1", StartMessage(id, "voice"))
    \/ \E id \in SessionIds : OnSessionEnd("c1", EndMessage(id))
    \/ OnEscalate("c1", [type |-> "ESCALATE"])
    \/ \E e \in EscalationIds : OnEscalationTake("c2", TakeMessage(e))
    \/ \E e \in EscalationIds : OnEscalationResolve("c2", ResolveMessage(e))

SpecAdmin == InitAdmin /\ [][NextAdmin]_vars

(***************************************************************************)
(* SpecDispatch: the dispatcher with payloads it cannot use: text that is   *)
(* not JSON, a type it does not know, and commands without their fields,   *)
(* from two connections that each may own a chat session.                  *)
(***************************************************************************)
Unparseable == [type |-> Null, payload |-> "{not json"]

OtherMessages == {Unparseable, [type |-> "PING"]}

ChatMessageNoText == [type |-> "CHAT_MESSAGE", messageId |-> "m"]

NextDispatch ==
    \/ \E c \in Conns : Connect(c)
    \/ \E c \in Conns : Close(c)
    \/ \E c \in Conns, id \in SessionIds : OnSessionStart(c, StartMessage(id, "chat"))
    \/ \E c \in Conns : OnChatMessage(c, ChatMessageNoText)
    \/ \E c \in Conns, m \in OtherMessages : OnOtherMessage(c, m)
    \/ \E c \in Conns : OnEscalate(c, [type |-> "ESCALATE"])

SpecDispatch == Init /\ [][NextDispatch]_vars

(***************************************************************************)
(* SpecBroadcast: the broadcaster applied to every set of connections the  *)
(* WebSocket server can hold, in every order, each connection in any of    *)
(* its ready states.                                                       *)
(***************************************************************************)
ClientLists ==
    {<<>>} \cup {<<c>> : c \in Conns}
           \cup {<<p[1], p[2]>> : p \in {q \in Conns \X Conns : q[1] # q[2]}}

Payloads == {[type |-> "SESSION_ENDED", id |-> "s1"], [type |-> "ERROR", message |-> "x"]}

InitBroadcast ==
    /\ readyState \in [Conns -> {WS_NEW, WS_OPEN, WS_CLOSING, WS_CLOSED}]
    /\ wssClients \in ClientLists
    /\ clientSessionId = [c \in Conns |-> Null]
    /\ activeSessions = <<>>
    /\ sessionClients = [id \in AllIds |-> Null]
    /\ escalatedCalls = <<>>
    /\ streams = [k \in 1..MaxStreams |-> Idle]
    /\ sessionTranscripts = [id \in AllIds |-> None]
    /\ clock = 0
    /\ received = Event("none", Null)
    /\ sent = <<>>
    /\ audioLocals = [audioChunks |-> <<>>, combinedAudio |-> <<>>]
    /\ observed = [c \in Conns |-> Unobserved]
    /\ adminPage = NoAdminPage
    /\ ClientInit

\* broadcast(data) is called.
Broadcast(data) ==
    /\ sent' = broadcast(readyState, wssClients, data)
    /\ received' = [Event("broadcast", Null) EXCEPT !.message = data]
    /\ UNCHANGED <<clientVars, readyState, wssClients, clientSessionId, activeSessions,
                   sessionClients, escalatedCalls, streams, sessionTranscripts, clock,
                   audioLocals>>
    /\ Observe

\* sendToClient(ws, data) is called.
SendToClient(ws, data) ==
    /\ sent' = sendToClient(readyState, ws, data)
    /\ received' = [Event("sendToClient", ws) EXCEPT !.message = data]
    /\ UNCHANGED <<clientVars, readyState, wssClients, clientSessionId, activeSessions,
                   sessionClients, escalatedCalls, streams, sessionTranscripts, clock,
                   audioLocals>>
    /\ Observe

NextBroadcast ==
    \/ \E data \in Payloads : Broadcast(data)
    \/ \E ws \in Conns, data \in Payloads : SendToClient(ws, data)

SpecBroadcast == InitBroadcast /\ [][NextBroadcast]_vars

(***************************************************************************)
(* The voicebot client.  The data channel messages and the session states  *)
(* that the backend sends, and the number of timers and requests that are  *)
(* pending at once.                                                        *)
(***************************************************************************)
LogMessage(data) == [type |-> "log", data |-> data]

Outputs(userText, botResponse, toolData) ==
    [type |-> "fetch_output",
     data |-> [userText |-> userText, botResponse |-> botResponse, toolData |-> toolData]]

Tool(name, reason) == [name |-> name, reason |-> reason]

DataChannelMessages ==
    {LogMessage("pause_detected"), LogMessage("response_starting"),
     LogMessage("started_talking"),
     [type |-> "error", data |-> "backend error"],
     Outputs("battery low", "try a swap", NoTool),
     Outputs("", "", Tool("end_call", "")),
     Outputs("", "", Tool("end_call", "issue_resolved")),
     Outputs("talk to a person", "", Tool("escalate_to_agent", "angry"))}

SessionStates ==
    {[ok |-> FALSE, is_active |-> FALSE, should_end |-> FALSE, end_reason |-> Null],
     [ok |-> TRUE, is_active |-> TRUE, should_end |-> FALSE, end_reason |-> Null],
     [ok |-> TRUE, is_active |-> FALSE, should_end |-> TRUE, end_reason |-> "user_requested"],
     [ok |-> TRUE, is_active |-> TRUE, should_end |-> TRUE, end_reason |-> "user_requested"],
     [ok |-> TRUE, is_active |-> TRUE, should_end |-> TRUE, end_reason |-> "issue_resolved"]}

Pending ==
    timeouts.pollStart + timeouts.cleanup + timeouts.listen
        + awaits.stop + awaits.escalate + awaits.reset + awaits.polls

\* The timers a data channel message sets.
TimersOf(message) ==
    IF message.type # "fetch_output" THEN 0
    ELSE (IF message.data.botResponse # "" THEN 1 ELSE 0)
             + (IF message.data.toolData.name = "end_call" THEN 1 ELSE 0)

\* Call ends that come from the backend only: the end_call tool and the poll.
NextCallEnd ==
    \/ HandleStartBot /\ page.botState = "idle"
    \/ \E ok \in BOOLEAN : ResetFetch(ok)
    \/ DelayDone
    \/ \E ok \in BOOLEAN : GetUserMedia(ok)
    \/ \E ok \in BOOLEAN : Pending < MaxPending /\ Offer(ok)
    \/ \E state \in {"connected", "disconnected"} : PeerConnectionStateChange(state)
    \/ \E message \in DataChannelMessages :
          Pending + TimersOf(message) <= MaxPending /\ handleDataChannelMessage(message)
    \/ ListenTimeout
    \/ PollStartTimeout
    \/ Pending < MaxPending /\ PollTick
    \/ \E state \in SessionStates : PollResponse(state)
    \/ cleanupRuns < MaxCleanups /\ CleanupTimeout
    \/ CleanupResetDone

SpecCallEnd == Init /\ [][NextCallEnd]_vars

\* The whole page: the backend's call ends and the two buttons.
NextClient ==
    \/ Pending < MaxPending /\ HandleStartBot
    \/ cleanupRuns < MaxCleanups /\ StopFetchDone
    \/ \E ok \in BOOLEAN : ResetFetch(ok)
    \/ DelayDone
    \/ \E ok \in BOOLEAN : GetUserMedia(ok)
    \/ \E ok \in BOOLEAN : Pending < MaxPending /\ Offer(ok)
    \/ \E state \in {"connected", "disconnected"} : PeerConnectionStateChange(state)
    \/ \E message \in DataChannelMessages :
          Pending + TimersOf(message) <= MaxPending /\ handleDataChannelMessage(message)
    \/ ListenTimeout
    \/ PollStartTimeout
    \/ Pending < MaxPending /\ PollTick
    \/ \E state \in SessionStates : PollResponse(state)
    \/ Pending < MaxPending /\ HandleEscalate
    \/ EscalateFetchDone
    \/ cleanupRuns < MaxCleanups /\ CleanupTimeout
    \/ CleanupResetDone

SpecClient == Init /\ [][NextClient]_vars

(***************************************************************************)
(* Properties.                                                             *)
(***************************************************************************)
\* The step handled a message of this type.
Handled(type) == received'.event = "message" /\ received'.message.type = type

\* The last step handled a message of this type.
LastHandled(type) == received.event = "message" /\ received.message.type = type

\* The types of the events sent to connection c by the last step, in order.
TypesSentTo(msgs, c) ==
    LET mine == SelectSeq(msgs, LAMBDA e : e.to = c)
    IN  [i \in 1..Len(mine) |-> mine[i].data.type]

\* The escalations of a session that are not resolved.
OpenEscalations(E, sessionId) ==
    {i \in 1..Len(E) : E[i].sessionId = sessionId /\ E[i].status # "resolved"}

\* C1: a SESSION_START that names a session id which is already active fails:
\* the existing session and its connection mapping stay as they are and no
\* SESSION_STARTED is broadcast.
C1_DuplicateStartFails ==
    [][ (Handled("SESSION_START") /\ Has(received'.message, "id")
            /\ hasSession(activeSessions, received'.message.id))
        => /\ activeSessions' = activeSessions
           /\ sessionClients' = sessionClients
           /\ \A i \in 1..Len(sent') : sent'[i].data.type # "SESSION_STARTED" ]_vars

\* C2: every session id has at most one escalation that is pending or
\* in-progress, and an ESCALATE for a session that has one is answered with
\* ESCALATION_EXISTS carrying its id and adds no record.
C2_AtMostOneOpen ==
    \A id \in AllIds : Cardinality(OpenEscalations(escalatedCalls, id)) <= 1

C2_EscalateWhileOpen ==
    LET c == received'.conn
        id == clientSessionId[c]
        open == OpenEscalations(escalatedCalls, id)
    IN  (Handled("ESCALATE") /\ hasSession(activeSessions, id) /\ open # {})
        => /\ escalatedCalls' = escalatedCalls
           /\ sent' = <<[to |-> c,
                         data |-> [type |-> "ESCALATION_EXISTS",
                                   escalationId |-> escalatedCalls[CHOOSE i \in open : TRUE].id]]>>

C2_OneOpenEscalationPerSession == []C2_AtMostOneOpen /\ [][C2_EscalateWhileOpen]_vars

C2_Witness ==
    /\ LastHandled("ESCALATE")
    /\ Len(sent) = 1 /\ sent[1].data.type = "ESCALATION_EXISTS"
    /\ Len(escalatedCalls) = 2
    /\ \E i \in 1..2 : escalatedCalls[i].status = "in-progress"
                        /\ escalatedCalls[i].id = sent[1].data.escalationId

\* C3: ESCALATION_EXISTS is the answer to an ESCALATE only when the session
\* has an escalation that is not resolved.
C3_ExistsOnlyWhileOpen ==
    (LastHandled("ESCALATE")
        /\ \E i \in 1..Len(sent) : sent[i].data.type = "ESCALATION_EXISTS")
    => OpenEscalations(escalatedCalls, clientSessionId[received.conn]) # {}

\* C4: an escalation whose status is resolved keeps that status.
C4_ResolvedIsTerminal ==
    [][ \A i \in 1..Len(escalatedCalls) :
            escalatedCalls[i].status = "resolved" => escalatedCalls'[i].status = "resolved" ]_vars

\* C5: the history stored in an escalation never changes after the
\* escalation is created.
C5_HistoryFrozen ==
    [][ \A i \in 1..Len(escalatedCalls) :
            escalatedCalls'[i].history = escalatedCalls[i].history ]_vars

\* A transcript without its timestamps and defaults: who said what, in order.
Said(history) ==
    [i \in 1..Len(history) |-> [sender |-> history[i].sender, text |-> history[i].text]]

\* The turns the step appends to session id: the user turn of an accepted
\* CHAT_MESSAGE, the bot turn of a response timer's last run, or the
\* fullHistory of an accepted ESCALATE.
TurnsAppended(id) ==
    IF Handled("CHAT_MESSAGE") /\ clientSessionId[received'.conn] = id
    THEN <<[sender |-> "user", text |-> received'.message.text]>>
    ELSE IF /\ received'.event = "timer"
            /\ streams[received'.slot].phase = "interval"
            /\ streams[received'.slot].currentIndex >= WordCount(streams[received'.slot].fullResponse)
            /\ streams[received'.slot].sessionId = id
    THEN <<[sender |-> "bot", text |-> streams[received'.slot].fullResponse]>>
    ELSE IF /\ Handled("ESCALATE") /\ clientSessionId[received'.conn] = id
            /\ Has(received'.message, "fullHistory")
            /\ Len(escalatedCalls') > Len(escalatedCalls)
    THEN Said(received'.message.fullHistory)
    ELSE <<>>

\* C6: a session starts with no turns, and from then on every appended turn
\* goes to the end of its turn sequence: no turn is lost, moved or changed
\* while the session lives.
C6_TurnsInAppendOrder ==
    [][ \A id \in AllIds :
          hasSession(activeSessions', id) =>
            IF ~hasSession(activeSessions, id)
               \/ (Handled("SESSION_START") /\ clientSessionId'[received'.conn] = id)
            THEN getSessionHistory(activeSessions', id) = <<>>
            ELSE Said(getSessionHistory(activeSessions', id))
                   = Said(getSessionHistory(activeSessions, id)) \o TurnsAppended(id) ]_vars

C6_Witness ==
    \E i \in 1..Len(activeSessions) :
        Said(activeSessions[i].chatHistory)
          = << [sender |-> "user", text |-> "hi"],
               [sender |-> "bot", text |-> "mock chat response"],
               [sender |-> "user", text |-> "nearest station"] >>

\* C7: deleting a session twice is deleting it once, and a SESSION_END for
\* an id with no live session changes no registry and sends nothing.
C7_DeleteTwice ==
    \A id \in AllIds :
        /\ deleteSession(deleteSession(activeSessions, id), id)
             = deleteSession(activeSessions, id)
        /\ deleteSessionClient(deleteSessionClient(sessionClients, id), id)
             = deleteSessionClient(sessionClients, id)

C7_EndOfUnknown ==
    (Handled("SESSION_END") /\ ~hasSession(activeSessions, received'.message.id))
    => /\ activeSessions' = activeSessions
       /\ sessionClients' = sessionClients
       /\ escalatedCalls' = escalatedCalls
       /\ sent' = <<>>

C7_DeleteIdempotent == []C7_DeleteTwice /\ [][C7_EndOfUnknown]_vars

C7_Witness ==
    /\ LastHandled("SESSION_END")
    /\ received.message.id = "s2"
    /\ sent = <<>>
    /\ Len(activeSessions) = 1 /\ activeSessions[1].id = "s1"
    /\ Len(wssClients) = 2

\* The step drained the audio buffer of a live session.
DrainedBy(c) ==
    /\ Handled("AUDIO_END") /\ received'.conn = c
    /\ hasSession(activeSessions, clientSessionId[c])

\* The orderings of 1..n: the one-to-one maps of 1..n onto itself.
Orderings(n) ==
    {p \in [1..n -> 1..n] : \A i, j \in 1..n : i # j => p[i] # p[j]}

RECURSIVE SumOfConfidences(_, _)
SumOfConfidences(history, scored) ==
    IF scored = {} THEN 0
    ELSE LET i == CHOOSE i \in scored : TRUE
         IN  history[i].confidence[1] + SumOfConfidences(history, scored \ {i})

\* C9: an escalation created with no average confidence of its own has as
\* average confidence the mean of the confidences of the user turns of its
\* history that have one, and as low-confidence count the number of those
\* turns whose confidence is below 0.70; turns with a null or missing
\* confidence and turns of the bot count in neither.
C9_StatsFromUserConfidences ==
    [][ (Handled("ESCALATE") /\ Len(escalatedCalls') = Len(escalatedCalls) + 1) =>
          LET message == received'.message
              escalation == escalatedCalls'[Len(escalatedCalls')]
              history == IF Has(message, "fullHistory") THEN message.fullHistory
                         ELSE getSessionHistory(activeSessions, clientSessionId[received'.conn])
              scored == {i \in 1..Len(history) :
                            /\ history[i].sender = "user"
                            /\ Has(history[i], "confidence")
                            /\ history[i].confidence # None}
              low == {i \in scored : history[i].confidence[1] < 70}
              mean == escalation.stats.avgConfidence
          IN  /\ escalation.stats.lowConfidenceCount = Cardinality(low)
              /\ IF scored = {} THEN mean = None
                 ELSE /\ mean[2] > 0
                      /\ mean[1] * Cardinality(scored)
                           = SumOfConfidences(history, scored) * mean[2]
              /\ (~Has(message, "avgConfidence") \/ message.avgConfidence = None)
                    => escalation.avgConfidence = mean ]_vars

C9_Witness ==
    /\ LastHandled("ESCALATE")
    /\ ~Has(received.message, "avgConfidence")
    /\ Len(escalatedCalls) = 1
    /\ [i \in 1..Len(escalatedCalls[1].history) |->
            <<escalatedCalls[1].history[i].sender, ConfidenceOf(escalatedCalls[1].history[i])>>]
         = << <<"user", Some(90)>>, <<"user", Some(50)>>, <<"user", Some(30)>>, <<"user", None>> >>
    /\ escalatedCalls[1].avgConfidence = <<170, 3>>
    /\ escalatedCalls[1].stats.avgConfidence = <<170, 3>>
    /\ escalatedCalls[1].stats.lowConfidenceCount = 2

\* The last step accepted a CHAT_MESSAGE of connection c.
ChatAccepted(c) ==
    /\ LastHandled("CHAT_MESSAGE") /\ received.conn = c
    /\ TypesSentTo(sent, c) = <<"CHAT_ACK", "CHAT_PROCESSING">>

\* The last step was the timer of slot k sending CHAT_RESPONSE_END to c.
ChatEnded(c, k) ==
    /\ received.event = "timer" /\ received.slot = k
    /\ TypesSentTo(sent, c) = <<"CHAT_RESPONSE_END">>

\* A chat response for connection c is streaming in slot k.
ChatStreaming(c, k) ==
    /\ streams[k].kind = "chat" /\ streams[k].phase = "interval" /\ streams[k].ws = c

C10_AckThenProcessing ==
    \A c \in Conns :
        (Handled("CHAT_MESSAGE") /\ received'.conn = c
            /\ hasSession(activeSessions, clientSessionId[c]))
        => /\ TypesSentTo(sent', c) = <<"CHAT_ACK", "CHAT_PROCESSING">>
           /\ \E k \in DOMAIN streams :
                 streams[k] = Idle /\ streams'[k].kind = "chat" /\ streams'[k].ws = c

\* C10: a CHAT_MESSAGE of a connection with a live session is answered, in
\* the step that handles it, with CHAT_ACK and then CHAT_PROCESSING, and
\* later, unless the connection closes first, with CHAT_RESPONSE_END from the
\* response timer that step started.
C10_ChatAnswered ==
    /\ [][C10_AckThenProcessing]_vars
    /\ \A c \in Conns :
          ChatAccepted(c) ~>
              (readyState[c] # WS_OPEN \/ \E k \in 1..MaxStreams : ChatEnded(c, k))
    /\ \A c \in Conns, k \in 1..MaxStreams :
          ChatStreaming(c, k) ~> (readyState[c] # WS_OPEN \/ ChatEnded(c, k))

C10_Witness ==
    /\ ChatEnded("c1", 1)
    /\ readyState["c1"] = WS_OPEN
    /\ Said(getSessionHistory(activeSessions, "s1"))
         = << [sender |-> "user", text |-> "hi"],
              [sender |-> "bot", text |-> "mock chat response"] >>

(***************************************************************************)
(* The voicebot client: barge-in, call end, escalation.                    *)
(***************************************************************************)
\* The step ran dataChannel.onmessage for a log message with this text.
HandledLog(data) ==
    /\ handled'.kind = "message"
    /\ handled'.message.type = "log"
    /\ handled'.message.data = data

\* C11: barge-in.  When the client handles the remote notification that the
\* user started talking while the page shows the bot speaking, the page shows
\* listening right after that step.
C11_BargeInListens ==
    [][HandledLog("started_talking") /\ page.botState = "speaking"
          => page'.botState = "listening"]_vars

\* A started_talking notification was handled while the bot was speaking.
C11_Witness ==
    /\ handled.kind = "message"
    /\ handled.message.type = "log"
    /\ handled.message.data = "started_talking"
    /\ handled.botState = "speaking"
    /\ page.botState = "listening"

(***************************************************************************)
(* The session registry and its connection mapping; observers.             *)
(***************************************************************************)
\* C12: the session ids that have a connection mapping are exactly the ids in
\* the session registry: createSession adds both and deleteSession (by
\* SESSION_END or by the cleanup of a disconnect) removes both in one step.
C12_MappingMatchesRegistry ==
    \A id \in AllIds : sessionClients[id] # Null <=> hasSession(activeSessions, id)

\* A SESSION_END has just removed one session while another one is live.
C12_Witness ==
    /\ received.event = "message"
    /\ received.message.type = "SESSION_END"
    /\ sent # <<>>
    /\ ~hasSession(activeSessions, received.message.id)
    /\ sessionClients[received.message.id] = Null
    /\ \E id \in AllIds : hasSession(activeSessions, id) /\ sessionClients[id] # Null

\* The step opened connection c.
Joined(c) == readyState[c] = WS_NEW /\ readyState'[c] = WS_OPEN

\* The snapshot of the state in which an observer joins: the registry in
\* insertion order and the escalations that are pending or in progress, in
\* creation order.
Snapshot ==
    [type |-> "SYNC",
     sessions |-> activeSessions,
     escalations |-> SelectSeq(escalatedCalls,
                               LAMBDA e : e.status \in {"pending", "in-progress"})]

\* Nothing is sent to a connection that has not joined yet.
C13_NothingBeforeJoin == \A i \in 1..Len(sent) : readyState[sent[i].to] # WS_NEW

\* C13: the step in which an observer joins sends it SYNC and nothing else,
\* with the sessions of the registry and the non-resolved escalations as they
\* are at the join; no event is sent to it before that step.
C13_SyncOnJoin ==
    /\ []C13_NothingBeforeJoin
    /\ [][\A c \in Conns : Joined(c) => sent' = <<[to |-> c, data |-> Snapshot]>>]_vars

\* An observer has joined while a session is live, one escalation is open and
\* another one is resolved.
C13_Witness ==
    /\ received.event = "connection"
    /\ Len(sent) = 1
    /\ sent[1].data.type = "SYNC"
    /\ sent[1].data.sessions # <<>>
    /\ Len(sent[1].data.escalations) = 1
    /\ Len(escalatedCalls) = 2

\* C14: after a connection has closed, no session that this connection
\* started remains in the registry, also when it started more than one.
C14_NoSessionOfClosedConnection ==
    \A id \in AllIds :
        hasSession(activeSessions, id) => readyState[sessionClients[id]] # WS_CLOSED

\* C15: a SESSION_START that names an id which is already active re-attaches
\* and changes nothing of the session: its creation time, its turns and its
\* buffered audio are what they were.
C15_RestartIsNoOp ==
    [][Handled("SESSION_START") /\ Has(received'.message, "id")
           /\ hasSession(activeSessions, received'.message.id)
        => LET old == getSession(activeSessions, received'.message.id)
               new == getSession(activeSessions', received'.message.id)
           IN  /\ new.startTime = old.startTime
               /\ new.chatHistory = old.chatHistory
               /\ new.audioChunks = old.audioChunks]_vars

\* C16: no inbound message ends the server or harms the others: the step
\* that handles a message of one connection leaves every other connection as
\* open as it was and every other connection's live session in the registry.
C16_MessageLeavesOthersIntact ==
    [][\A c \in Conns :
          received'.conn = c /\ received'.event \in {"message", "exit"}
          => \A d \in Conns \ {c} :
                /\ readyState[d] = WS_OPEN => readyState'[d] = WS_OPEN
                /\ clientSessionId[d] # Null /\ hasSession(activeSessions, clientSessionId[d])
                   => hasSession(activeSessions', clientSessionId[d])]_vars

\* C17: call-end handling is idempotent across the end_call tool and the
\* poll: the cleanup runs at most once in a call, whichever of the two
\* reports the end and also when both do.
C17_CleanupOncePerCall == cleanupRuns <= 1

\* C18: whichever path ends a call (call-end signal, poll, stop button,
\* escalation, an error while or after connecting), a page that is back in
\* the idle state has its control channel closed, its audio tracks stopped,
\* its peer connection closed and its polling stopped.
C18_IdleIsReleased ==
    page.botState = "idle"
    => /\ voiceSocket.dataChannel = Null
       /\ voiceSocket.localStream = Null
       /\ voiceSocket.peerConnection = Null
       /\ voiceSocket.statePollingInterval = Null

\* The step ran dataChannel.onmessage for outputs that carry this tool.
HandledTool(name) ==
    /\ handled'.kind = "message"
    /\ handled'.message.type = "fetch_output"
    /\ handled'.message.data.toolData.name = name

\* C19: on the tool escalate_to_agent the client sets the escalated flag,
\* forces the idle state, issues the ESCALATE command with the reason and
\* schedules the disconnect after the grace delay: the callback runs to its
\* end, nothing in it raises, and its disconnect timeout is pending after it.
C19_EscalationToolSequence ==
    [][HandledTool("escalate_to_agent")
        => /\ page'.isEscalated
           /\ page'.botState = "idle"
           /\ handled'.threw = "none"
           /\ timeouts'.disconnect = timeouts.disconnect + 1]_vars

\* The connections that were sent `data`, once each.
Delivered(data) == {c \in Conns : \E i \in 1..Len(sent) : sent[i] = [to |-> c, data |-> data]}

\* C20: a broadcast delivers the event once to every observer of the
\* connection set that is open and to no other connection, and a send to one
\* observer delivers it to that observer if it is open and to nobody if not.
C20_DeliveryToOpenOnly ==
    /\ received.event = "broadcast"
       => /\ Delivered(received.message)
                = {c \in Range(wssClients) : readyState[c] = WS_OPEN}
          /\ Len(sent) = Cardinality(Delivered(received.message))
    /\ received.event = "sendToClient"
       => /\ Delivered(received.message)
                = {c \in {received.conn} : readyState[c] = WS_OPEN}
          /\ Len(sent) = Cardinality(Delivered(received.message))

\* A broadcast has reached the one open observer and skipped one that is not
\* open.
C20_Witness ==
    /\ received.event = "broadcast"
    /\ Len(wssClients) = 2
    /\ \E c \in Range(wssClients) : readyState[c] = WS_CLOSING
    /\ Len(sent) = 1

(***************************************************************************)
(* The order of the events of one observer.                                *)
(***************************************************************************)
\* The session an event refers to.
SessionOf(d) == IF d.type = "ESCALATION_NEW" THEN d.escalation.sessionId ELSE d.id

\* How the observer of the i-th send() of the step had learnt of the session
\* the event refers to, when that event reached it.
LearntBefore(i) ==
    ObserveAll(observed, SubSeq(sent', 1, i - 1))[sent'[i].to][SessionOf(sent'[i].data)]

\* The step's sends of events that refer to a session.
Referring ==
    {i \in 1..Len(sent') : sent'[i].data.type \in {"SESSION_ENDED", "ESCALATION_NEW"}}

\* The sender of an accepted ESCALATE is sent ESCALATION_TRIGGERED and then
\* ESCALATION_NEW of the same escalation.
TriggeredBeforeNew ==
    Handled("ESCALATE")
    => \A i \in 1..Len(sent') :
          sent'[i].to = received'.conn /\ sent'[i].data.type = "ESCALATION_NEW"
          => \E j \in 1..(i - 1) :
                /\ sent'[j].to = received'.conn
                /\ sent'[j].data.type = "ESCALATION_TRIGGERED"
                /\ sent'[j].data.escalationId = sent'[i].data.escalation.id

\* C21 as stated: the sender of an accepted ESCALATE is sent
\* ESCALATION_TRIGGERED before ESCALATION_NEW, and every observer has been
\* sent SESSION_STARTED for a session before any SESSION_ENDED or
\* ESCALATION_NEW that refers to it.
C21_StartedBeforeReferred ==
    [][TriggeredBeforeNew /\ \A i \in Referring : LearntBefore(i) = "started"]_vars

\* C21: the sender of an accepted ESCALATE is sent ESCALATION_TRIGGERED before
\* ESCALATION_NEW, and every observer has been sent SESSION_STARTED for a
\* session, or a SYNC that lists it, before any SESSION_ENDED or
\* ESCALATION_NEW that refers to it.
C21_AnnouncedBeforeReferred ==
    [][TriggeredBeforeNew /\ \A i \in Referring : LearntBefore(i) \in {"started", "synced"}]_vars

\* An accepted ESCALATE has reached its sender, who saw the session start,
\* and an observer that joined later.
C21_Witness ==
    /\ received.event = "message"
    /\ received.message.type = "ESCALATE"
    /\ Len(sent) = 3
    /\ sent[1].data.type = "ESCALATION_TRIGGERED"
    /\ sent[1].to = received.conn
    /\ observed[received.conn][clientSessionId[received.conn]] = "started"
    /\ \E c \in Conns : observed[c][clientSessionId[received.conn]] = "synced"

(***************************************************************************)
(* Commands without a live session; audio and chat of a live session.      *)
(***************************************************************************)
\* The stores: the session registry with its transcripts and audio buffers,
\* the connection mapping, the escalation registry and the mock transcripts.
Stores == <<activeSessions, sessionClients, escalatedCalls, sessionTranscripts>>

\* C22: AUDIO_DATA, CHAT_MESSAGE and ESCALATE of a connection whose session
\* is not live are answered with ERROR "No active session" to that connection
\* alone and change none of the stores.
C22_NoActiveSession ==
    [][\A c \in Conns :
          /\ received'.event = "message"
          /\ received'.conn = c
          /\ received'.message.type \in {"AUDIO_DATA", "CHAT_MESSAGE", "ESCALATE"}
          /\ LiveSessionOf(c) = <<>>
          => /\ sent' = <<[to |-> c,
                           data |-> [type |-> "ERROR", message |-> "No active session"]]>>
             /\ UNCHANGED Stores]_vars

\* An ESCALATE was refused after the sender's session had ended, while an
\* escalation of that session is in the registry.
C22_Witness ==
    /\ received.event = "message"
    /\ received.message.type = "ESCALATE"
    /\ Len(sent) = 1
    /\ sent[1].data.type = "ERROR"
    /\ escalatedCalls # <<>>

(***************************************************************************)
(* C23  Every AUDIO_DATA accepted for a live session appends the chunk to  *)
(* that session's buffer and sends its sender AUDIO_ACK with the chunk's   *)
(* chunkIndex and then TRANSCRIPT_UPDATE (the mock transcript, since the   *)
(* transcription provider fails); no ERROR is sent.                        *)
(***************************************************************************)
C23_AckThenTranscript ==
    [][\A c \in Conns :
          /\ Handled("AUDIO_DATA")
          /\ received'.conn = c
          /\ LiveSessionOf(c) # <<>>
          => LET m == received'.message
                 id == clientSessionId[c]
                 before == getSession(activeSessions, id).audioChunks
                 after == getSession(activeSessions', id).audioChunks
             IN  /\ hasSession(activeSessions', id)
                 /\ Len(after) = Len(before) + 1
                 /\ SubSeq(after, 1, Len(before)) = before
                 /\ after[Len(after)].data = m.audioData
                 /\ after[Len(after)].index = m.chunkIndex
                 /\ Len(sent') = 2
                 /\ sent'[1] = [to |-> c,
                                data |-> [type |-> "AUDIO_ACK", chunkIndex |-> m.chunkIndex,
                                          sessionId |-> id]]
                 /\ sent'[2].to = c
                 /\ sent'[2].data.type = "TRANSCRIPT_UPDATE"
                 /\ sent'[2].data.sessionId = id]_vars

\* A late chunk (index 0) is accepted after two others and answered.
C23_Witness ==
    /\ received.event = "message"
    /\ received.message = AudioDataMessage("a", 0)
    /\ Len(sent) = 2
    /\ sent[2].data.type = "TRANSCRIPT_UPDATE"
    /\ \E s \in Range(LiveSessionOf(received.conn)) :
           /\ Len(s.audioChunks) = 3
           /\ s.audioChunks[3].index = 0

(***************************************************************************)
(* C24  AUDIO_END for a live session hands over exactly the chunks in the  *)
(* session's buffer and leaves the buffer empty; between two drains the    *)
(* buffer only grows, by the chunk of each accepted AUDIO_DATA, and no     *)
(* other step hands chunks over, so each chunk is drained once.  The       *)
(* sender gets PROCESSING_STARTED first, and the failure of the provider   *)
(* starts the canned voice response and sends no ERROR.                    *)
(***************************************************************************)
\* The step starts, ends or closes a session (the buffer goes with it).
SessionStep ==
    \/ Handled("SESSION_START")
    \/ Handled("SESSION_END")
    \/ received'.event = "close"

C24_Drained(c) ==
    LET id == clientSessionId[c]
        buffered == getSession(activeSessions, id).audioChunks
    IN  /\ audioLocals'.audioChunks = buffered
        /\ hasSession(activeSessions', id)
        /\ getSession(activeSessions', id).audioChunks = <<>>
        /\ sent' # <<>>
        /\ sent'[1] = [to |-> c, data |-> [type |-> "PROCESSING_STARTED", sessionId |-> id]]
        /\ \A i \in 1..Len(sent') : sent'[i].data.type # "ERROR"
        /\ \E k \in DOMAIN streams :
              /\ streams[k] = Idle
              /\ streams'[k] # Idle
              /\ streams'[k].kind = "voice"
              /\ streams'[k].ws = c
              /\ streams'[k].sessionId = id

C24_Buffered(id) ==
    LET before == getSession(activeSessions, id).audioChunks
        after == getSession(activeSessions', id).audioChunks
    IN  /\ hasSession(activeSessions', id)
        /\ UNCHANGED audioLocals
        /\ IF Handled("AUDIO_DATA") /\ clientSessionId[received'.conn] = id
           THEN /\ Len(after) = Len(before) + 1
                /\ SubSeq(after, 1, Len(before)) = before
           ELSE after = before

C24_DrainOnce ==
    [][~SessionStep =>
          \A id \in SessionIds : hasSession(activeSessions, id) =>
              IF \E c \in Conns : DrainedBy(c) /\ clientSessionId[c] = id
              THEN \A c \in Conns : DrainedBy(c) => C24_Drained(c)
              ELSE C24_Buffered(id)]_vars

\* A second drain: the session already has the turn of an earlier response,
\* and the drain hands over the one chunk recorded since.
C24_Witness ==
    /\ LastHandled("AUDIO_END")
    /\ Len(audioLocals.audioChunks) = 1
    /\ \E s \in Range(LiveSessionOf(received.conn)) :
           /\ s.audioChunks = <<>>
           /\ s.chatHistory # <<>>
    /\ TypesSentTo(sent, received.conn) = <<"PROCESSING_STARTED", "USER_TRANSCRIPT">>

(***************************************************************************)
(* C25  A CHAT_MESSAGE accepted for a live session appends one user turn   *)
(* with its text in the step that sends CHAT_ACK.  The last run of the     *)
(* canned response's timer appends one bot turn with the full response in  *)
(* the step that sends CHAT_RESPONSE_END if a session of that id is live   *)
(* then, and changes no session and sends no ERROR if none is.             *)
(***************************************************************************)
\* history grew by exactly one turn of this sender and text.
C25_OneMore(before, after, sender, text) ==
    /\ Len(after) = Len(before) + 1
    /\ SubSeq(after, 1, Len(before)) = before
    /\ after[Len(after)].sender = sender
    /\ after[Len(after)].text = text

C25_UserTurn ==
    \A c \in Conns :
       /\ Handled("CHAT_MESSAGE")
       /\ received'.conn = c
       /\ LiveSessionOf(c) # <<>>
       => LET id == clientSessionId[c]
          IN  /\ hasSession(activeSessions', id)
              /\ C25_OneMore(getSession(activeSessions, id).chatHistory,
                             getSession(activeSessions', id).chatHistory,
                             "user", received'.message.text)
              /\ sent' # <<>>
              /\ sent'[1].to = c
              /\ sent'[1].data.type = "CHAT_ACK"
              /\ sent'[1].data.sessionId = id

C25_BotTurn ==
    \A k \in DOMAIN streams :
       /\ received' = Timer(k)
       /\ streams[k] # Idle
       /\ streams[k].kind = "chat"
       /\ streams[k].phase = "interval"
       /\ streams[k].currentIndex >= WordCount(streams[k].fullResponse)
       => LET st == streams[k]
          IN  /\ sent' = sendToClient(readyState, st.ws,
                             [type |-> "CHAT_RESPONSE_END", sessionId |-> st.sessionId,
                              fullText |-> st.fullResponse])
              /\ IF hasSession(activeSessions, st.sessionId)
                 THEN /\ hasSession(activeSessions', st.sessionId)
                      /\ C25_OneMore(getSession(activeSessions, st.sessionId).chatHistory,
                                     getSession(activeSessions', st.sessionId).chatHistory,
                                     "bot", st.fullResponse)
                 ELSE UNCHANGED activeSessions

C26_UnknownEscalation ==
    [][\A c \in Conns :
          /\ Handled("ESCALATION_TAKE") \/ Handled("ESCALATION_RESOLVE")
          /\ received'.conn = c
          /\ received'.message.escalationId \notin 1..Len(escalatedCalls)
          => /\ sent' = <<[to |-> c,
                           data |-> [type |-> "ERROR", message |-> "Escalation not found"]]>>
             /\ UNCHANGED escalatedCalls]_vars

\* A resolve names an id never issued while an open escalation is in the
\* registry and another console is connected.
C26_Witness ==
    /\ LastHandled("ESCALATION_RESOLVE")
    /\ received.message.escalationId = 0
    /\ Len(escalatedCalls) = 1
    /\ escalatedCalls[1].status = "pending"
    /\ \A c \in Conns : readyState[c] = WS_OPEN
    /\ Len(sent) = 1
    /\ sent[1].data.type = "ERROR"

(***************************************************************************)
(* C27  An accepted ESCALATION_TAKE sets the escalation's status to        *)
(* in-progress, leaves its resolution time and resolver as they are, and   *)
(* sends ESCALATION_UPDATED to every open connection.  An accepted         *)
(* ESCALATION_RESOLVE sets the status to resolved, records the resolver    *)
(* and the time, sends ESCALATION_RESOLVED to every open connection, and   *)
(* sends one more ESCALATION_RESOLVED to the connection registered for the *)
(* escalation's session when that session is live and the connection open. *)
(***************************************************************************)
\* The events of this type that the step sent to connection c.
C27_SentTo(c, type) ==
    SelectSeq(sent', LAMBDA e : e.to = c /\ e.data.type = type)

\* Only escalation i changed, and only in these fields.
C27_OnlyChanged(i, fields) ==
    /\ Len(escalatedCalls') = Len(escalatedCalls)
    /\ \A j \in 1..Len(escalatedCalls) :
          /\ j # i => escalatedCalls'[j] = escalatedCalls[j]
          /\ \A f \in DOMAIN escalatedCalls[j] \ fields :
                escalatedCalls'[j][f] = escalatedCalls[j][f]

C27_Take ==
    Handled("ESCALATION_TAKE") /\ received'.message.escalationId \in 1..Len(escalatedCalls)
    => LET i == received'.message.escalationId
       IN  /\ C27_OnlyChanged(i, {"status"})
           /\ escalatedCalls'[i].status = "in-progress"
           /\ \A c \in Conns :
                 IF readyState[c] = WS_OPEN
                 THEN C27_SentTo(c, "ESCALATION_UPDATED") =
                          <<[to |-> c, data |-> [type |-> "ESCALATION_UPDATED",
                                                 escalation |-> escalatedCalls'[i]]]>>
                 ELSE \A k \in 1..Len(sent') : sent'[k].to # c

C27_Resolve ==
    Handled("ESCALATION_RESOLVE") /\ received'.message.escalationId \in 1..Len(escalatedCalls)
    => LET m == received'.message
           i == m.escalationId
           who == IF Has(m, "resolvedBy") THEN m.resolvedBy ELSE "admin"
           id == escalatedCalls[i].sessionId
           owner == sessionClients[id]
           toAll(c) == [to |-> c, data |-> [type |-> "ESCALATION_RESOLVED",
                                            escalationId |-> i, resolvedBy |-> who]]
           toOwner(c) == [to |-> c, data |-> [type |-> "ESCALATION_RESOLVED",
                                              escalationId |-> i,
                                              message |-> "An agent has resolved your request."]]
       IN  /\ C27_OnlyChanged(i, {"status", "resolvedAt", "resolvedBy"})
           /\ escalatedCalls'[i].status = "resolved"
           /\ escalatedCalls'[i].resolvedBy = who
           /\ escalatedCalls'[i].resolvedAt = Some(clock)
           /\ \A c \in Conns :
                 IF readyState[c] # WS_OPEN
                 THEN \A k \in 1..Len(sent') : sent'[k].to # c
                 ELSE IF hasSession(activeSessions, id) /\ owner = c
                      THEN C27_SentTo(c, "ESCALATION_RESOLVED") = <<toAll(c), toOwner(c)>>
                      ELSE /\ Len(C27_SentTo(c, "ESCALATION_RESOLVED")) >= 1
                           /\ C27_SentTo(c, "ESCALATION_RESOLVED")[1] = toAll(c)

C27_TakeAndResolve == [][C27_Take /\ C27_Resolve]_vars

\* A console resolves, by name, the escalation of a live session whose
\* connection is open: the session's connection is sent the event twice.
C27_Witness ==
    /\ LastHandled("ESCALATION_RESOLVE")
    /\ received.message.escalationId = 1
    /\ escalatedCalls[1].status = "resolved"
    /\ escalatedCalls[1].resolvedBy = "agent7"
    /\ escalatedCalls[1].resolvedAt = Some(1)
    /\ hasSession(activeSessions, escalatedCalls[1].sessionId)
    /\ sessionClients[escalatedCalls[1].sessionId] # received.conn
    /\ Len(sent) = 3

(***************************************************************************)
(* C28  The escalation created by an accepted ESCALATE has as history the  *)
(* message's history when it carries one, an empty one included, and the   *)
(* session's transcript otherwise.  Its metrics are the message's, or      *)
(* empty when it has none; its average confidence is the message's, or the *)
(* mean over the history when it has none or null; its summary is the      *)
(* message's, or the one generated from the history when it has none or an *)
(* empty one.                                                              *)
(***************************************************************************)
C28_Created == Handled("ESCALATE") /\ Len(escalatedCalls') = Len(escalatedCalls) + 1

C28_Escalation == escalatedCalls'[Len(escalatedCalls')]

C28_History ==
    IF Has(received'.message, "fullHistory") THEN received'.message.fullHistory
    ELSE getSession(activeSessions, clientSessionId[received'.conn]).chatHistory

\* The mean over the history, as the statistics of the escalation have it.
C28_Mean == C28_Escalation.stats.avgConfidence

\* C28 (as stated): metrics, average confidence and summary are the
\* message's whenever it carries them, and derived from the history (so not
\* empty metrics for a history that is not empty) when it does not.
C28_FromMessageWhenSupplied ==
    [][C28_Created =>
          LET m == received'.message
              e == C28_Escalation
          IN  /\ e.history = C28_History
              /\ IF Has(m, "metrics") THEN e.metrics = m.metrics
                 ELSE C28_History # <<>> => e.metrics # "{}"
              /\ IF Has(m, "avgConfidence")
                 THEN e.avgConfidence = IF m.avgConfidence = None THEN None
                                        ELSE Quotient(m.avgConfidence[1], 100)
                 ELSE e.avgConfidence = C28_Mean
              /\ IF Has(m, "summary") THEN e.summary = [text |-> m.summary]
                 ELSE e.summary = generateQuickSummary(C28_History)]_vars

\* C28 (amended).
C28_FromMessageOrDefault ==
    [][C28_Created =>
          LET m == received'.message
              e == C28_Escalation
          IN  /\ e.history = C28_History
              /\ e.metrics = IF Has(m, "metrics") THEN m.metrics ELSE "{}"
              /\ IF Has(m, "avgConfidence") /\ m.avgConfidence # None
                 THEN e.avgConfidence = Quotient(m.avgConfidence[1], 100)
                 ELSE e.avgConfidence = C28_Mean
              /\ IF Has(m, "summary") /\ m.summary # ""
                 THEN e.summary = [text |-> m.summary]
                 ELSE e.summary = generateQuickSummary(C28_History)]_vars

\* A session with a transcript of its own is escalated with an empty
\* history, an average confidence of 0 and no metrics or summary.
C28_Witness ==
    /\ LastHandled("ESCALATE")
    /\ Has(received.message, "fullHistory")
    /\ received.message.fullHistory = <<>>
    /\ Has(received.message, "avgConfidence")
    /\ received.message.avgConfidence = Some(0)
    /\ ~Has(received.message, "summary")
    /\ ~Has(received.message, "metrics")
    /\ Len(escalatedCalls) = 1
    /\ escalatedCalls[1].history = <<>>
    /\ escalatedCalls[1].avgConfidence = <<0, 1>>
    /\ escalatedCalls[1].stats.avgConfidence = None
    /\ escalatedCalls[1].metrics = "{}"
    /\ escalatedCalls[1].summary = [text |-> "No conversation history available."]
    /\ \E s \in Range(LiveSessionOf("c1")) : Len(s.chatHistory) = 2

(***************************************************************************)
(* C29  The call state of the page changes only along the edges idle to    *)
(* connecting, connecting to listening, listening to processing,           *)
(* processing to speaking, any state to listening and any state to idle;   *)
(* in particular no step takes it from idle or connecting straight to      *)
(* processing or speaking.                                                 *)
(***************************************************************************)
C29_Edges ==
    {<<"idle", "connecting">>, <<"connecting", "listening">>,
     <<"listening", "processing">>, <<"processing", "speaking">>}
    \cup {<<from, to>> : from \in {"idle", "connecting", "listening", "processing", "speaking"},
                          to \in {"listening", "idle"}}

C29_OnlySpecifiedEdges ==
    [][/\ page'.botState # page.botState => <<page.botState, page'.botState>> \in C29_Edges
       /\ page.botState \in {"idle", "connecting"}
             => page'.botState \notin {"processing", "speaking"}]_vars

(***************************************************************************)
(* C30  A turn is stored with the confidence it was supplied with, 0       *)
(* included, and with null only when it was supplied with none; the        *)
(* confidence of a stored turn never changes afterwards.                   *)
(***************************************************************************)
\* The turns of a caller-supplied history are appended as they were given.
C30_AsGiven ==
    \A c \in Conns :
       /\ Handled("ESCALATE")
       /\ received'.conn = c
       /\ Has(received'.message, "fullHistory")
       /\ Len(escalatedCalls') = Len(escalatedCalls) + 1
       => LET given == received'.message.fullHistory
              id == clientSessionId[c]
              before == getSessionHistory(activeSessions, id)
              after == getSessionHistory(activeSessions', id)
          IN  /\ Len(after) = Len(before) + Len(given)
              /\ \A i \in 1..Len(given) :
                    after[Len(before) + i].confidence = ConfidenceOf(given[i])

\* The turns a session already has keep their confidence.
C30_Kept ==
    \A id \in AllIds :
       /\ hasSession(activeSessions, id)
       /\ hasSession(activeSessions', id)
       /\ ~Handled("SESSION_START")
       => LET before == getSessionHistory(activeSessions, id)
              after == getSessionHistory(activeSessions', id)
          IN  /\ Len(after) >= Len(before)
              /\ \A i \in 1..Len(before) : after[i].confidence = before[i].confidence

C30_ConfidenceAsGiven == [][C30_AsGiven /\ C30_Kept]_vars

(***************************************************************************)
(* C31  When a connection closes, a session whose connection mapping is    *)
(* another connection, still open and using that session, is not removed.  *)
(***************************************************************************)
C31_CloseSparesSessionOfOther ==
    [][\A c \in Conns, id \in AllIds :
          /\ received'.event = "close"
          /\ received'.conn = c
          /\ hasSession(activeSessions, id)
          /\ sessionClients[id] # Null
          /\ sessionClients[id] # c
          /\ readyState[sessionClients[id]] = WS_OPEN
          /\ clientSessionId[sessionClients[id]] = id
          => hasSession(activeSessions', id)]_vars

(***************************************************************************)
(* C32  A SESSION_END that names a session whose connection mapping is     *)
(* another connection does not delete the session and sends no             *)
(* SESSION_ENDED.                                                          *)
(***************************************************************************)
C32_EndOnlyByOwner ==
    [][\A c \in Conns :
          /\ Handled("SESSION_END")
          /\ received'.conn = c
          /\ hasSession(activeSessions, received'.message.id)
          /\ sessionClients[received'.message.id] # c
          => /\ hasSession(activeSessions', received'.message.id)
             /\ sent' = <<>>]_vars

(***************************************************************************)
(* C33  The last run of a response timer appends its bot turn only to the  *)
(* session instance the response was started for: a session started under  *)
(* the same id while the response streams does not receive the turn.       *)
(***************************************************************************)
\* The response of timer slot k was started before the session that now has
\* its id was created: that session has no user turn yet, while every chat
\* response starts right after its message's user turn was appended.
C33_StartedForEarlierInstance(k) ==
    /\ streams[k] # Idle
    /\ streams[k].kind = "chat"
    /\ hasSession(activeSessions, streams[k].sessionId)
    /\ getSessionHistory(activeSessions, streams[k].sessionId) = <<>>

C33_NoTurnFromEarlierInstance ==
    [][\A k \in DOMAIN streams :
          received' = Timer(k) /\ C33_StartedForEarlierInstance(k)
          => /\ hasSession(activeSessions', streams[k].sessionId)
             /\ getSessionHistory(activeSessions', streams[k].sessionId) = <<>>]_vars

(***************************************************************************)
(* C34  Every escalation in the registry has a resolution time and a       *)
(* resolver exactly when its status is resolved.                           *)
(***************************************************************************)
C34_StampedIffResolved ==
    \A i \in 1..Len(escalatedCalls) :
       /\ escalatedCalls[i].resolvedAt # None <=> escalatedCalls[i].status = "resolved"
       /\ escalatedCalls[i].resolvedBy # Null <=> escalatedCalls[i].status = "resolved"

(***************************************************************************)
(* C35  An ESCALATION_RESOLVE for an escalation that is already resolved   *)
(* changes neither its resolver nor its resolution time and sends no       *)
(* ESCALATION_RESOLVED.                                                    *)
(***************************************************************************)
C35_ResolveTwiceIsNoOp ==
    [][\A i \in 1..Len(escalatedCalls) :
          /\ Handled("ESCALATION_RESOLVE")
          /\ received'.message.escalationId = i
          /\ escalatedCalls[i].status = "resolved"
          => /\ escalatedCalls'[i].resolvedBy = escalatedCalls[i].resolvedBy
             /\ escalatedCalls'[i].resolvedAt = escalatedCalls[i].resolvedAt
             /\ \A k \in 1..Len(sent') : sent'[k].data.type # "ESCALATION_RESOLVED"]_vars

(***************************************************************************)
(* C36  An accepted ESCALATION_RESOLVE sends every open connection at most *)
(* one ESCALATION_RESOLVED, the connection of the escalation's session     *)
(* included.                                                               *)
(***************************************************************************)
C36_AtMostOneResolvedEach ==
    [][Handled("ESCALATION_RESOLVE") =>
          \A c \in Conns :
             Len(SelectSeq(sent', LAMBDA e : e.to = c /\ e.data.type = "ESCALATION_RESOLVED"))
                <= 1]_vars

(***************************************************************************)
(* C37  After every event, the agent console that applied its SYNC and the *)
(* events since lists exactly the sessions of the server's registry, each  *)
(* once, and exactly the server's escalations that are not resolved, each  *)
(* once.                                                                   *)
(***************************************************************************)
\* The ids of a list of sessions or escalations.
C37_Ids(list) == [i \in 1..Len(list) |-> list[i].id]

\* The list names each id of `ids` once and no other.
C37_Lists(list, ids) ==
    /\ Range(C37_Ids(list)) = ids
    /\ Len(list) = Cardinality(ids)

C37_ConsoleMatchesServer ==
    (adminPage.ws # Null /\ readyState[adminPage.ws] = WS_OPEN)
    => /\ C37_Lists(adminPage.sessions, Range(C37_Ids(activeSessions)))
       /\ C37_Lists(adminPage.escalations,
                    Range(C37_Ids(getPendingEscalations(escalatedCalls))))

(***************************************************************************)
(* C38  Once the page shows the idle state it shows it until the user      *)
(* starts a new call: no timeout armed earlier and no late control signal  *)
(* of the data channel moves it away from idle.                            *)
(***************************************************************************)
\* The step is the start of a call by the start button.
C38_UserStarts == handled'.kind = "click" /\ handled'.name = "start"

C38_IdleUntilStart ==
    [][page.botState = "idle" /\ ~C38_UserStarts => page'.botState = "idle"]_vars

(***************************************************************************)
(* C40  After disconnect() returned, the backend state is not polled until *)
(* the next connect(): the polling interval is set only while the service  *)
(* holds the peer connection of a connect() or a connect() is under way.   *)
(***************************************************************************)
\* disconnect() cleared the service and connect() was not called since.
C40_Disconnected ==
    /\ voiceSocket.peerConnection = Null
    /\ awaits.connect \in {"none", "reset", "delay"}

C40_NoPollingAfterDisconnect ==
    C40_Disconnected => voiceSocket.statePollingInterval = Null

(***************************************************************************)
(* C39  When cleanup() ran while the start of a call was still under way,  *)
(* the continuation of handleStartBot and connect() leaves the service     *)
(* without peer connection and capture stream, not connected, with no      *)
(* session and no polling started, and does not show the listening state.  *)
(***************************************************************************)
\* cleanup() ran since the start click and the start has not returned.
C39_StoppedWhileConnecting == cleanupRuns > 0 /\ awaits.connect # "none"

\* The step resumes handleStartBot or connect() after one of their awaits.
C39_Continues == handled'.kind = "await" /\ handled'.name \in {"delay", "media", "offer"}

C39_StopWhileConnecting ==
    [][C39_StoppedWhileConnecting /\ C39_Continues
       => /\ voiceSocket'.peerConnection = Null
          /\ voiceSocket'.localStream = Null
          /\ ~voiceSocket'.isConnected
          /\ ~voiceSocket'.sessionActive
          /\ timeouts'.pollStart = timeouts.pollStart
          /\ page'.botState # "listening"]_vars

====
